---- MODULE Spec2Model ----
(***************************************************************************)
(* State-machine model of the Solana bridge program                        *)
(* (bridge/program/src/processor.rs) and of the helper library it uses     *)
(* (src/util.rs, src/merkle_node.rs).                                      *)
(*                                                                         *)
(* Every request (instruction) is one atomic action: the platform discards *)
(* all in-flight changes of an instruction that returns an error, so only  *)
(* the requests that return Ok are steps; the error a request would return *)
(* in a state is given by the handler's result operator.                   *)
(***************************************************************************)
EXTENDS Integers, Sequences, FiniteSets, TLC

\* ------------------------------------------------------------------ bounds
MaxSeed == 2
MaxKey == 2
MaxOrigin == 3
MaxOwner == 2
MaxAmount == 2
MaxPathLen == 2
MaxProgram == 1
MaxRequests == 4
MaxTokenSeed == 1

\* seed 0 stands for the seeds whose derived address falls on the curve:
\* Pubkey::create_program_address fails for them
Seeds == 0..MaxSeed
PubKeys == 1..MaxKey
Origins == 1..MaxOrigin
Owners == 1..MaxOwner
Amounts == 1..MaxAmount
CommissionPrograms == 1..MaxProgram

\* ------------------------------------------------------- addresses (Pubkey)
\* Addresses are numbers below 256; to_bytes() of address n is the 32-byte
\* big-endian encoding of n.
AdminBase == 10
ProgramAddressBase == 20
CommissionBase == 100

MetadataBase == 40
AssociatedBase == 300

AdminAddrs == {AdminBase + s : s \in 1..MaxSeed}
TokenSeeds == 1..MaxTokenSeed
Holders == AdminAddrs \cup Owners

\* the bridge program's own id
PROGRAM_ID == 200

\* Pubkey::create_program_address(&[&seeds], program_id)
create_program_address(seeds) ==
    IF seeds = 0 THEN [err |-> "InvalidSeeds", val |-> 0]
    ELSE [err |-> "Ok", val |-> AdminBase + seeds]

\* Pubkey::find_program_address(&[seed], program_id).0: the address derived
\* from one 32-byte seed, which is the origin of a withdrawal for its
\* withdraw account and the token seed of a mint for the mint account.  An
\* origin and a token seed of the same 32 bytes derive the same address.
find_program_address(seed) == ProgramAddressBase + seed

\* the withdraw accounts of the origins and the mint accounts of the token
\* seeds
WithdrawAddrs == {find_program_address(o) : o \in Origins}
Mints == {find_program_address(t) : t \in TokenSeeds}

\* the token seed a mint account of the bridge is derived from
token_seed_of(mint) == mint - ProgramAddressBase

\* Metadata::find_pda(mint).0
find_metadata_pda(mint) == MetadataBase + (mint - ProgramAddressBase)

\* spl_associated_token_account::get_associated_token_address(wallet, mint)
get_associated_token_address(wallet, mint) ==
    AssociatedBase + 20 * (mint - ProgramAddressBase) + wallet

AssociatedAddrs == {get_associated_token_address(h, m) : h \in Holders, m \in Mints}

\* the (BridgeAdmin, program) pairs whose commission-admin derivation falls
\* on the curve: about half of all derivations do
OnCurveCommission == {<<AdminBase + 1, 2>>, <<AdminBase + 1, 3>>}

\* Pubkey::create_program_address(&[COMMISSION_ADMIN_PDA_SEED, bridge_admin], commission_program)
commission_address(bridge_admin, program) ==
    IF <<bridge_admin, program>> \in OnCurveCommission
    THEN [err |-> "InvalidSeeds", val |-> 0]
    ELSE [err |-> "Ok", val |-> CommissionBase + 10 * program + (bridge_admin - AdminBase)]

\* ------------------------------------------------------------------- bytes
Zeros(n) == [i \in 1..n |-> 0]

Zeros24 == Zeros(24)
Zeros31 == Zeros(31)
Zeros63 == Zeros(63)

\* Pubkey::to_bytes / [u8; 32] of a small number
to_bytes(n) == Zeros31 \o <<n>>

\* the 64 bytes of a secp256k1 public key
key_bytes(k) == Zeros63 \o <<k>>

\* u64::to_be_bytes for amounts below 2^24 (the upper five bytes are zero)
to_be_bytes(a) ==
    <<0, 0, 0, 0, 0, (a \div 65536) % 256, (a \div 256) % 256, a % 256>>

\* ------------------------------------------------------------------ hashes
\* A 32-byte value is either a raw word (its big-endian number) or the
\* output of keccak-256 over a pre-image.  A keccak value is kept as its
\* pre-image (keccak is injective on the pre-images of the model); its
\* digest bytes are looked up where two values are ordered.
Raw(n) == [k |-> "raw", v |-> n]
keccak(pre) == [k |-> "keccak", v |-> pre]

\* as_ref() of a 32-byte value inside a concatenation: one 32-byte block
as_ref(h) == <<h>>

\* ------------------------------------------------------------- merkle_node
SOLANA_NETWORK == <<83, 111, 108, 97, 110, 97>>

amount_bytes(amount) == Zeros24 \o to_be_bytes(amount)

OptBytes(opt) == IF opt = <<>> THEN <<>> ELSE to_bytes(opt[1])

\* a native transfer with a zeroed asset id in place of the empty one
new_native_transfer_zero_asset(amount) ==
    [address_to |-> <<0>>, token_id_to |-> <<>>, amount |-> amount,
     name |-> <<>>, symbol |-> <<>>, uri |-> <<>>]

\* TransferOperation: an Option is the empty sequence (None) or <<x>> (Some)
new_native_transfer(amount) ==
    [address_to |-> <<>>, token_id_to |-> <<>>, amount |-> amount,
     name |-> <<>>, symbol |-> <<>>, uri |-> <<>>]

new_ft_transfer(mint, amount, name, symbol, uri) ==
    [address_to |-> <<mint>>, token_id_to |-> <<>>, amount |-> amount,
     name |-> name, symbol |-> symbol, uri |-> uri]

\* an NFT transfer with the mint as the address and the collection as the
\* token id
new_nft_transfer_mint_first(mint, collection, name, symbol, uri) ==
    [address_to |-> <<mint>>, token_id_to |-> collection, amount |-> 1,
     name |-> name, symbol |-> symbol, uri |-> uri]

new_nft_transfer(mint, collection, name, symbol, uri) ==
    [address_to |-> collection, token_id_to |-> <<mint>>, amount |-> 1,
     name |-> name, symbol |-> symbol, uri |-> uri]

get_operation(op) ==
    OptBytes(op.address_to) \o OptBytes(op.token_id_to)
        \o amount_bytes(op.amount) \o op.name \o op.symbol \o op.uri

\* a pre-image with the receiver in front of the origin
content_preimage_receiver_first(origin, receiver, program_id, data) ==
    to_bytes(receiver) \o SOLANA_NETWORK \o to_bytes(origin)
        \o to_bytes(program_id) \o data

\* a pre-image that leaves the receiver out
content_preimage_without_receiver(origin, receiver, program_id, data) ==
    to_bytes(origin) \o SOLANA_NETWORK \o to_bytes(program_id) \o data

\* the bytes ContentNode::hash feeds to keccak
content_preimage(origin, receiver, program_id, data) ==
    to_bytes(origin) \o SOLANA_NETWORK \o to_bytes(receiver)
        \o to_bytes(program_id) \o data

content_hash(origin, receiver, program_id, data) ==
    keccak(content_preimage(origin, receiver, program_id, data))

\* --------------------------------------------------------------- keccak-256
\* solana_program::keccak::hash, computed: the state of keccak-f[1600] is
\* the set of its bits that are 1, bit z of lane (x, y) being the number
\* 64 * (x + 5 * y) + z; a byte of the input or the output holds eight
\* consecutive bits of a lane, the least significant first.
RoundConstants ==
    <<{0},
      {1, 7, 15},
      {1, 3, 7, 15, 63},
      {15, 31, 63},
      {0, 1, 3, 7, 15},
      {0, 31},
      {0, 7, 15, 31, 63},
      {0, 3, 15, 63},
      {1, 3, 7},
      {3, 7},
      {0, 3, 15, 31},
      {1, 3, 31},
      {0, 1, 3, 7, 15, 31},
      {0, 1, 3, 7, 63},
      {0, 3, 7, 15, 63},
      {0, 1, 15, 63},
      {1, 15, 63},
      {7, 63},
      {1, 3, 15},
      {1, 3, 31, 63},
      {0, 7, 15, 31, 63},
      {7, 15, 63},
      {0, 31},
      {3, 15, 31, 63}>>

\* the rotation of lane x + 5 * y in the step rho
Rotations ==
    <<0, 1, 62, 28, 27, 36, 44, 6, 55, 20, 3, 10, 43, 25, 39, 41, 45, 15, 21, 8,
      18, 2, 61, 56, 14>>

KeccakBits == 0..1599
\* the bits of the state a block of the input is added to: 136 bytes
KeccakRate == 1088

keccak_theta(A) ==
    LET C == {q \in 0..319 :
                 ((q \in A) # (320 + q \in A))
                     # (((640 + q \in A) # (960 + q \in A)) # (1280 + q \in A))}
        D == {q \in 0..319 :
                 (64 * (((q \div 64) + 4) % 5) + (q % 64) \in C)
                     # (64 * (((q \div 64) + 1) % 5) + ((q + 63) % 64) \in C)}
    IN {p \in KeccakBits : (p \in A) # (p % 320 \in D)}

\* rho and pi: lane (x, y), rotated, becomes lane (y, 2 * x + 3 * y)
keccak_rho_pi(A) ==
    {p \in KeccakBits :
        LET X == (p \div 64) % 5
            Y == p \div 320
            lane == ((X + 3 * Y) % 5) + 5 * X
        IN 64 * lane + (((p % 64) + 64 - Rotations[lane + 1]) % 64) \in A}

\* chi, and iota with the constant of the round
keccak_chi_iota(B, round) ==
    {p \in KeccakBits :
        LET X == (p \div 64) % 5
            row == 320 * (p \div 320) + (p % 64)
        IN ((p \in B) # ((row + 64 * ((X + 1) % 5) \notin B) /\ (row + 64 * ((X + 2) % 5) \in B)))
               # (p \in RoundConstants[round])}

\* the rounds s.round..24 of keccak-f[1600] on the state s.bits
RECURSIVE keccak_f(_)
keccak_f(s) ==
    IF s.round > 24 THEN s.bits
    ELSE keccak_f([bits |-> keccak_chi_iota(keccak_rho_pi(keccak_theta(s.bits)), s.round),
                   round |-> s.round + 1])

\* byte j of the padded input: the input, the byte 0x01, zeros up to the
\* length `total`, a multiple of the rate, and 0x80 added to the last byte
padded_byte(data, j, total) ==
    IF j <= Len(data) THEN data[j]
    ELSE (IF j = Len(data) + 1 THEN 1 ELSE 0) + (IF j = total THEN 128 ELSE 0)

\* the state after the blocks block.. of the input have been absorbed
RECURSIVE keccak_absorb(_, _, _, _)
keccak_absorb(A, data, block, total) ==
    IF 136 * block >= total THEN A
    ELSE LET added ==
                 {p \in 0..(KeccakRate - 1) :
                     (padded_byte(data, 136 * block + (p \div 8) + 1, total)
                          \div (2 ^ (p % 8))) % 2 = 1}
         IN keccak_absorb(keccak_f([bits |-> {p \in KeccakBits : (p \in A) # (p \in added)},
                                    round |-> 1]),
                          data, block + 1, total)

\* the bytes from..32 of the output
RECURSIVE keccak_squeeze(_, _)
keccak_squeeze(A, from) ==
    IF from > 32 THEN <<>>
    ELSE LET bit(b) == IF 8 * (from - 1) + b \in A THEN 2 ^ b ELSE 0
         IN <<bit(0) + bit(1) + bit(2) + bit(3) + bit(4) + bit(5) + bit(6) + bit(7)>>
                \o keccak_squeeze(A, from + 1)

\* the 32 bytes of the keccak-256 digest of a sequence of bytes
keccak256(data) ==
    keccak_squeeze(keccak_absorb({}, data, 0, 136 * ((Len(data) \div 136) + 1)), 1)

\* the 32 bytes of a value: a raw word is its own bytes, a keccak value the
\* digest of its pre-image, which is a sequence of bytes or, with length 2,
\* the concatenation of two 32-byte values
RECURSIVE bytes32(_)
bytes32(h) ==
    IF h.k = "raw" THEN to_bytes(h.v)
    ELSE keccak256(IF Len(h.v) = 2 THEN bytes32(h.v[1]) \o bytes32(h.v[2]) ELSE h.v)

\* the order of two sequences of 32 bytes: that of the first byte in which
\* they differ
BytesCmp(a, b) ==
    LET d == {i \in 1..32 : a[i] # b[i]}
        m == CHOOSE i \in d : \A j \in d : i <= j
    IN IF d = {} THEN 0 ELSE IF a[m] < b[m] THEN 0 - 1 ELSE 1

\* ---------------------------------------------------------- keccak digests
\* keccak::Hash is ordered by its 32 digest bytes.  For the values that the
\* requests of the model fold, the model holds the leading three bytes of
\* their digest, as a number, so that keccak256 need not be computed where
\* two of them are ordered: the digests of the leaves of its requests and
\* of every node over two of the known values.  The numbers are pairwise
\* different, so they order these values as the 32 bytes do.  The known
\* values are numbered: the raw words 1 and 2; the native leaves of
\* (origin, receiver, amount) in 1..3, 1..2, 1..2 as 3..14 and that of
\* (4, 1, 1) as 15; the FT leaves of (origin, receiver, amount) in 1..3,
\* 1..2, 1..2 for the mint of token seed 1 and the metadata N, S, U as
\* 16..27.  An NFT leaf of the model is the FT leaf of amount 1.
\* the bytes of a leaf pre-image v, beside origin, receiver and amount, are
\* those of a known leaf: "Solana" and the program id, then for a native
\* transfer the upper amount bytes, for an FT transfer the mint, the upper
\* amount bytes, name, symbol and uri.  Every other byte is a padding zero
\* of a word or an amount in each pre-image of the model.
known_fields(kind, v) ==
    /\ v[33] = SOLANA_NETWORK[1] /\ v[34] = SOLANA_NETWORK[2] /\ v[35] = SOLANA_NETWORK[3]
    /\ v[36] = SOLANA_NETWORK[4] /\ v[37] = SOLANA_NETWORK[5] /\ v[38] = SOLANA_NETWORK[6]
    /\ v[102] = PROGRAM_ID
    /\ IF kind = "Native" THEN v[132] = 0 /\ v[133] = 0
       ELSE /\ v[134] = find_program_address(1)
            /\ v[164] = 0 /\ v[165] = 0
            /\ v[167] = 78 /\ v[168] = 83 /\ v[169] = 85

\* KnownDigests[i] is the digest of the known value i (0 for a raw word,
\* which is its own 32 bytes)
KnownDigests ==
    <<0, 0, 9211833, 516433, 15316698, 7211966, 6111882, 10716314,
      8975233, 2670688, 1509933, 5782592, 11969807, 4212846, 8226695, 804852,
      14718137, 13077194, 5624483, 1805930, 3983787, 16231736, 1562464, 13060324,
      13075984, 13824192, 12595710>>

\* NodeDigests[i][j] is the digest of keccak(value i || value j)
NodeDigests ==
    <<<<13396360, 15272827, 12843115, 9139706, 12270111, 12739169, 5397135, 8136243,
        5085707, 11797977, 10878711, 1670924, 15740508, 5728304, 10965106, 572217,
        11349299, 3325898, 9247744, 611757, 6220353, 1036471, 16002618, 1427315,
        8380891, 4979396, 5772062>>,
      <<14274925, 6789013, 1429667, 11265528, 3549743, 13288199, 6742852, 596371,
        5327797, 12360541, 12796485, 14447245, 5176462, 2010346, 14006129, 3135251,
        3041107, 11854002, 12087012, 15126084, 9633884, 951161, 981889, 16282882,
        12573298, 12233996, 8431572>>,
      <<12374717, 9889946, 5420228, 6144868, 1415096, 6994143, 15654324, 3022736,
        4248324, 8083239, 15982524, 3994258, 10304677, 14761553, 3847742, 15664322,
        8997255, 13048380, 587271, 12990839, 6718909, 5976783, 10727617, 4893251,
        3619668, 6561264, 8015400>>,
      <<3446076, 10429904, 2476673, 14710495, 9025018, 11718104, 12006105, 1826004,
        4771381, 10008231, 9450850, 1190234, 12544170, 12002318, 6061433, 16510074,
        1936412, 3856621, 1241196, 11209110, 5668209, 5822933, 5353126, 13431894,
        7947933, 5187949, 10167446>>,
      <<7979045, 8590443, 8392668, 8278249, 16646476, 14564512, 16636322, 7927581,
        2743765, 4908101, 11536554, 1201830, 8537730, 16490510, 10372017, 12058643,
        14370829, 9186329, 15054775, 14547680, 2693119, 6352853, 3747388, 9547860,
        4587446, 261783, 2429442>>,
      <<14585027, 8571637, 11771822, 5180011, 625324, 7853314, 12138144, 6610133,
        6224244, 13958714, 9016427, 16336301, 851738, 1534996, 7327677, 695541,
        2791686, 14090496, 11930655, 8345531, 16055925, 7720094, 995846, 7522459,
        4986661, 3252025, 2621013>>,
      <<7729769, 4494850, 3851910, 11618180, 10966769, 6985566, 11212624, 9449711,
        3600387, 10766681, 3635858, 6823136, 15650470, 671657, 13458438, 3944722,
        14443431, 36342, 1034488, 1620425, 6111445, 33702, 11602025, 12284743,
        11514918, 14041090, 2503752>>,
      <<6274967, 9254558, 651455, 9036803, 9581746, 5295893, 13005279, 4208551,
        1701260, 13034505, 4859956, 5079211, 14835276, 12075268, 11385647, 11817003,
        400811, 16479606, 7514891, 2149640, 15928771, 9852777, 5194426, 7629666,
        1946728, 10902619, 9855412>>,
      <<9550350, 10583419, 13812825, 2319572, 10292924, 58832, 8171142, 13359156,
        14415997, 13436058, 3283761, 189648, 16358546, 13103977, 8136475, 10880141,
        15281649, 10724627, 7434304, 6297052, 425410, 3855827, 2539662, 4053055,
        10925065, 4412641, 2303627>>,
      <<12469830, 1663426, 2023272, 12302860, 15079254, 12100060, 592296, 10066979,
        13747146, 3821508, 5732320, 15335654, 12993782, 6172653, 7230663, 4036168,
        7366617, 10129374, 11735163, 16050887, 7352658, 9992319, 10631793, 2858791,
        12094548, 101555, 4473235>>,
      <<8354633, 3687640, 1237220, 11808088, 7381437, 6683736, 11786714, 10148805,
        2188922, 12580080, 160647, 10004232, 4437516, 16761220, 8784631, 6403302,
        2532556, 4867653, 2196818, 8817642, 12441074, 1590924, 15348983, 14613279,
        12908149, 13431483, 3340172>>,
      <<347434, 15476634, 11489192, 15369698, 13016862, 7801411, 6820869, 11710028,
        61512, 9073288, 458446, 14497496, 6062751, 3630799, 3748862, 16378414,
        4654668, 15116898, 15555815, 1700191, 3413092, 10708031, 15404108, 11369014,
        14590996, 15199407, 15816592>>,
      <<3754530, 8146484, 10707307, 7393658, 6098196, 15564194, 603038, 15731990,
        5994601, 15421170, 2576705, 12632083, 14458107, 6323020, 14681651, 9240399,
        15647831, 6963803, 15281123, 15415795, 9869938, 14866453, 8196000, 2802267,
        13845281, 1503553, 8385289>>,
      <<13984956, 6706631, 5762828, 225735, 15729046, 16573476, 2760629, 4144939,
        13642102, 13963192, 10960597, 16076355, 15683903, 2609146, 12471142, 12316188,
        1538551, 232778, 5546276, 1994117, 14802555, 13189202, 13361663, 8952660,
        8978933, 14059939, 1889255>>,
      <<16645630, 11922069, 12340725, 10014602, 2790801, 15636467, 4920833, 8573774,
        7468960, 8281408, 6288488, 7700513, 5881432, 7128589, 9141458, 7807225,
        1007366, 11342141, 13502586, 1467345, 4901102, 11410756, 15853526, 2002280,
        8224009, 2906799, 1184459>>,
      <<2234217, 12741186, 14977663, 12160973, 6171940, 10743303, 4992180, 4299557,
        8326689, 8543063, 4837378, 10172426, 4193055, 4421844, 3446781, 8957891,
        2543021, 2208976, 4984090, 13259372, 746648, 6442059, 9042990, 16271293,
        4570502, 2671839, 12281495>>,
      <<1280143, 426309, 12232828, 8485705, 1572360, 13424573, 5536010, 8649096,
        102093, 4827586, 6826093, 16185260, 10408444, 2508844, 8410016, 13650101,
        4137327, 8009926, 14293174, 6334047, 2573610, 11362347, 10271561, 1495372,
        1355751, 13416567, 11188233>>,
      <<5824609, 16471361, 706344, 9805831, 12648427, 8270481, 13921360, 13615028,
        15730826, 2409977, 14375518, 8618372, 6338586, 6151057, 5829099, 4233930,
        16105300, 10364615, 10528081, 10022038, 7603438, 9461884, 11066348, 6479629,
        3022158, 4285816, 15053706>>,
      <<12938533, 13620595, 3725437, 9988742, 4721667, 12078436, 14558419, 8030440,
        10394505, 1208757, 3605363, 16395807, 2875546, 7355992, 15260083, 10211513,
        3218609, 12762917, 4658503, 16147089, 8636861, 3801468, 7497636, 1907472,
        8288150, 13773773, 1639006>>,
      <<3188609, 2523920, 6056990, 16528636, 9824870, 11838926, 6372941, 6488605,
        9686108, 169871, 2580676, 11316859, 6452414, 6551715, 2498315, 6267276,
        7669762, 16644273, 6402997, 16336736, 6053973, 3397955, 12334272, 4362545,
        13977300, 2302383, 7611786>>,
      <<8388858, 13441934, 16554472, 6022552, 12781682, 16238124, 12611347, 2813735,
        13329774, 13842842, 12276295, 5192283, 7119610, 9254383, 5645104, 13486893,
        2203532, 13702268, 15183274, 13984267, 13028182, 4761847, 508142, 14956832,
        16372665, 3725125, 14066563>>,
      <<8840297, 14205837, 42171, 188893, 1587263, 2211202, 5457258, 3773655,
        8372363, 11770166, 7992830, 7438044, 1927957, 11900784, 9874229, 10420949,
        4232668, 16224411, 2878476, 11695586, 3244331, 16231623, 1008244, 7981589,
        12779196, 3018679, 6797474>>,
      <<16524904, 8550604, 6246086, 3930493, 11227563, 9685064, 4687720, 14952188,
        5345756, 5836890, 11281254, 2249437, 11189787, 11818476, 6589585, 14754774,
        669091, 14114459, 15740767, 14414625, 5807262, 10934819, 3706083, 14691629,
        122347, 16724474, 13245652>>,
      <<6367589, 11494677, 14305254, 1298212, 12922824, 1305527, 14171595, 15150928,
        5576858, 14467298, 8790792, 6888654, 11514966, 3220438, 10143313, 5380265,
        15466023, 4677226, 4761367, 16077685, 15250362, 12951832, 4759260, 5492022,
        9708305, 9214285, 14308887>>,
      <<8944109, 421524, 12730375, 749372, 924924, 4759199, 13367731, 8671774,
        12566486, 13929539, 16589223, 11709412, 2735438, 2492653, 2707003, 10229243,
        10964686, 1406713, 13596806, 8961966, 8511089, 15950186, 6928785, 13569546,
        7838991, 695819, 11617444>>,
      <<421526, 1958227, 3873404, 10234480, 7654366, 14850498, 6511379, 11020378,
        9048735, 6548040, 12053397, 12585473, 10460521, 12284488, 15168558, 16287197,
        13356157, 3993354, 1339579, 988979, 13386179, 14916341, 5049692, 4722065,
        11102199, 662648, 13980694>>,
      <<10222199, 6403851, 9165026, 7365800, 8460107, 15084427, 7400220, 16178708,
        2225502, 4131175, 5483480, 12308912, 121963, 16571906, 4561599, 15783715,
        13264782, 6555435, 5113442, 2910060, 3738898, 12595031, 5129031, 10591135,
        16370475, 16354550, 1643758>>>>

\* the number of a 32-byte value among the known values, 0 for any other: a
\* leaf pre-image carries the origin in byte 32, the receiver in byte 70
\* and the amount in its last amount byte; a pre-image of length 2 is the
\* concatenation of two 32-byte blocks
known_index(h) ==
    IF h.k = "raw" THEN (IF h.v \in {1, 2} THEN h.v ELSE 0)
    ELSE IF Len(h.v) \notin {134, 169} THEN 0
    ELSE LET kind == IF Len(h.v) = 134 THEN "Native" ELSE "FT"
             origin == h.v[32]
             receiver == h.v[70]
             amount == IF kind = "Native" THEN h.v[134] ELSE h.v[166]
             base == IF kind = "Native" THEN 2 ELSE 15
         IN IF receiver \notin {1, 2} \/ amount \notin {1, 2} \/ origin \notin {1, 2, 3, 4}
            THEN 0
            ELSE IF ~known_fields(kind, h.v) THEN 0
            ELSE IF origin # 4 THEN base + 4 * (origin - 1) + 2 * (receiver - 1) + amount
            ELSE IF kind = "Native" /\ receiver = 1 /\ amount = 1 THEN 15
            ELSE 0

\* the leading three digest bytes the model holds of the known value i and
\* of the node over the known values left and right, -1 where it holds none
leaf_digest(i) == IF i = 0 THEN 0 - 1 ELSE KnownDigests[i]
node_digest(left, right) ==
    IF left = 0 \/ right = 0 THEN 0 - 1 ELSE NodeDigests[left][right]

\* the leading three digest bytes of a keccak value, -1 where the model
\* does not hold them
digest(h) ==
    IF Len(h.v) = 2 THEN node_digest(known_index(h.v[1]), known_index(h.v[2]))
    ELSE leaf_digest(known_index(h))

\* big-endian comparison of two digests, by the leading bytes da and db the
\* model holds of both, else by the 32 bytes
DigestCmp(da, db, a, b) ==
    IF da >= 0 /\ db >= 0
    THEN (IF da = db THEN 0 ELSE IF da < db THEN 0 - 1 ELSE 1)
    ELSE BytesCmp(bytes32(a), bytes32(b))

\* derived Ord of keccak::Hash: big-endian comparison of the 32 bytes.  A
\* raw word of the model is below 256, its leading 31 bytes are zero, and
\* so it is below every digest.
HashCmp(a, b) ==
    IF a.k # b.k THEN (IF a.k = "raw" THEN 0 - 1 ELSE 1)
    ELSE IF a.k = "raw"
         THEN (IF a.v = b.v THEN 0 ELSE IF a.v < b.v THEN 0 - 1 ELSE 1)
    ELSE DigestCmp(digest(a), digest(b), a, b)

\* a comparison that always puts the sibling first
HashGeq_sibling_first(a, b) == TRUE

\* derived PartialOrd of keccak::Hash
HashGeq(a, b) == HashCmp(a, b) >= 0

\* -------------------------------------------------------------------- util
\* a fold that concatenates the running hash and the sibling in path order
RECURSIVE merkle_fold_in_path_order(_, _, _)
merkle_fold_in_path_order(hash, path, i) ==
    IF i > Len(path) THEN hash
    ELSE merkle_fold_in_path_order(keccak(as_ref(hash) \o as_ref(path[i])), path, i + 1)

RECURSIVE merkle_fold(_, _, _)
merkle_fold(hash, path, i) ==
    IF i > Len(path) THEN hash
    ELSE LET leaf == path[i]
         IN IF HashGeq(leaf, hash)
            THEN merkle_fold(keccak(as_ref(leaf) \o as_ref(hash)), path, i + 1)
            ELSE merkle_fold(keccak(as_ref(hash) \o as_ref(leaf)), path, i + 1)

\* a fold that takes the leaf itself as the root of an empty path
get_merkle_root_of_any_path(content, path) ==
    [err |-> "Ok", val |-> merkle_fold(content, path, 1)]

get_merkle_root(content, path) ==
    IF Len(path) = 0 THEN [err |-> "WrongMerklePath", val |-> Raw(0)]
    ELSE [err |-> "Ok", val |-> merkle_fold(content, path, 1)]

\* A signature is what a signer produced: its key, the 32-byte message and
\* the recovery id that goes with it; signer 0 is a malformed signature.
Sign(k, m) == [signer |-> k, msg |-> m, reid |-> 0]
BadSig == [signer |-> 0, msg |-> Raw(0), reid |-> 0]

\* the key recovered from a signature over another message or with another
\* recovery id is a key nobody holds
GarbageKey == MaxKey + 1

\* solana_program::secp256k1_recover::secp256k1_recover(hash, reid, sig):
\* a malformed signature and a recovery id above 3 are refused when parsed;
\* recovery ids 2 and 3 name the point whose abscissa is r + n, which is
\* not below the field prime for a signature a signer produces, and the
\* recovery fails
secp256k1_recover(hash, reid, sig) ==
    IF sig.signer = 0 \/ reid > 1 THEN [err |-> "Err", val |-> 0]
    ELSE IF sig.msg = hash /\ sig.reid = reid THEN [err |-> "Ok", val |-> sig.signer]
    ELSE [err |-> "Ok", val |-> GarbageKey]

\* a verifier with one error for every signature it refuses
verify_ecdsa_signature_one_error(hash, sig, reid, target_key) ==
    LET recovered_key == secp256k1_recover(hash, reid, sig)
    IN IF recovered_key.err = "Ok" /\ recovered_key.val = target_key THEN "Ok"
       ELSE "WrongSignature"

\* a verifier that accepts whatever key the signature recovers to
verify_ecdsa_signature_any_key(hash, sig, reid, target_key) ==
    IF secp256k1_recover(hash, reid, sig).err # "Ok" THEN "InvalidSignature" ELSE "Ok"

verify_ecdsa_signature(hash, sig, reid, target_key) ==
    LET recovered_key == secp256k1_recover(hash, reid, sig)
    IN IF recovered_key.err # "Ok" THEN "InvalidSignature"
       ELSE IF recovered_key.val # target_key THEN "WrongSignature"
       ELSE "Ok"

\* ------------------------------------------------------------------- state
VARIABLES
    admin,      \* BridgeAdmin account at each admin address
    withdraws,  \* Withdraw account at each withdraw address
    lamports,   \* lamport balance of the admin and owner accounts
    mints,      \* spl_token Mint account at each mint address
    metadatas,  \* token-metadata account of each mint
    tokens,     \* balance of each associated token account, -1: not created
    retired,    \* history: the keys each BridgeAdmin stored before a rotation
    paid,       \* history: number of withdrawals that succeeded, per origin
    nreq,       \* history: number of requests that succeeded
    last        \* history: the last request that succeeded

vars == <<admin, withdraws, lamports, mints, metadatas, tokens, retired, paid, nreq, last>>

\* state::BridgeAdmin; an account that was never created has no data, and
\* its fields below are read by nothing but the existence test
NoAdmin == [exists |-> FALSE, is_initialized |-> FALSE, public_key |-> 0,
            commission_program |-> 0]

\* state::Withdraw
NoWithdraw == [exists |-> FALSE, is_initialized |-> FALSE, token_type |-> "None",
               origin |-> 0, mint |-> <<>>, amount |-> 0, receiver_address |-> 0]

\* spl_token::state::Mint
NoMint == [exists |-> FALSE, mint_authority |-> 0, decimals |-> 0]

\* mpl_token_metadata::accounts::Metadata, the fields the bridge reads
NoMetadata == [exists |-> FALSE, name |-> <<>>, symbol |-> <<>>, uri |-> <<>>,
               collection |-> <<>>]

NoRequest == [op |-> "None"]

InitLamports == MaxAmount

Init ==
    /\ admin = [a \in AdminAddrs |-> NoAdmin]
    /\ withdraws = [w \in WithdrawAddrs |-> NoWithdraw]
    /\ lamports = [a \in AdminAddrs \cup Owners |-> IF a \in Owners THEN InitLamports ELSE 0]
    /\ mints = [m \in Mints |-> NoMint]
    /\ metadatas = [m \in Mints |-> NoMetadata]
    /\ tokens = [t \in AssociatedAddrs |-> 0 - 1]
    /\ retired = [a \in AdminAddrs |-> {}]
    /\ paid = [o \in Origins |-> 0]
    /\ nreq = 0
    /\ last = NoRequest

\* a request that returns an error is discarded by the platform with all
\* its in-flight changes: only requests that return Ok are steps
Accepted(res) ==
    /\ nreq < MaxRequests
    /\ res = "Ok"
    /\ nreq' = nreq + 1

\* the account at an address derived from one seed has been created, as the
\* withdraw account of an origin or as the mint of a token seed
in_use(ws, ms, address) ==
    \/ address \in DOMAIN ws /\ ws[address].exists
    \/ address \in DOMAIN ms /\ ms[address].exists

\* the signer seeds &[]: no address is derived from them
NoSeeds == 0

\* lib::call_create_account: system_instruction::create_account invoked
\* with signer seeds.  The platform derives the signing address from the
\* seeds before the system program runs, and the derivation fails for the
\* seeds &[] (InvalidSeeds).  The system program then refuses an address
\* that is in use and, behind that, a new account that has not signed; a
\* program-derived address signs only through the seeds it derives from,
\* here the address `signer`
call_create_account(account_in_use, account, signer) ==
    IF signer = NoSeeds THEN "InvalidSeeds"
    ELSE IF account_in_use THEN "AlreadyInUse"
    ELSE IF signer # account THEN "MissingRequiredSignature"
    ELSE "Ok"

\* the account list of a request names the BridgeAdmin account and the
\* instruction data carries the seeds
AdminInputs == AdminAddrs \X Seeds

\* the prologue every handler but InitializeAdmin starts with: the address
\* derived from the seeds is the BridgeAdmin account, whose data decodes
\* to a record (an account that was never created has no data to decode),
\* which is initialized
check_bridge_admin(bridge_admin_info, seeds) ==
    LET bridge_admin_key == create_program_address(seeds)
    IN IF bridge_admin_key.err # "Ok" THEN bridge_admin_key.err
       ELSE IF bridge_admin_info # bridge_admin_key.val THEN "WrongSeeds"
       ELSE IF ~admin[bridge_admin_info].exists THEN "BorshIoError"
       ELSE IF ~admin[bridge_admin_info].is_initialized THEN "NotInitialized"
       ELSE "Ok"

\* the requests that get past the prologue
LiveAdminInputs == {ai \in AdminInputs : check_bridge_admin(ai[1], ai[2]) = "Ok"}

\* ----------------------------------------------------------- InitializeAdmin
\* a handler that checks the seeds only and initializes whatever it finds
process_init_admin_result_if_needed(bridge_admin_info, seeds) ==
    LET bridge_key == create_program_address(seeds)
    IN IF bridge_key.err # "Ok" THEN bridge_key.err
       ELSE IF bridge_key.val # bridge_admin_info THEN "WrongSeeds"
       ELSE "Ok"

process_init_admin_result(bridge_admin_info, seeds) ==
    LET bridge_key == create_program_address(seeds)
    IN IF bridge_key.err # "Ok" THEN bridge_key.err
       ELSE IF bridge_key.val # bridge_admin_info THEN "WrongSeeds"
       ELSE IF call_create_account(admin[bridge_admin_info].exists, bridge_admin_info,
                                   bridge_key.val) # "Ok"
            THEN call_create_account(admin[bridge_admin_info].exists, bridge_admin_info,
                                     bridge_key.val)
       ELSE IF admin[bridge_admin_info].is_initialized THEN "AlreadyInUse"
       ELSE "Ok"

\* a record written without the commission program
init_admin_record_no_commission(public_key, commission_program) ==
    [exists |-> TRUE, is_initialized |-> TRUE, public_key |-> public_key,
     commission_program |-> 0]

init_admin_record(public_key, commission_program) ==
    [exists |-> TRUE, is_initialized |-> TRUE, public_key |-> public_key,
     commission_program |-> commission_program]

process_init_admin(bridge_admin_info, seeds, public_key, commission_program) ==
    /\ Accepted(process_init_admin_result(bridge_admin_info, seeds))
    /\ admin' = [admin EXCEPT ![bridge_admin_info] =
                     init_admin_record(public_key, commission_program)]
    /\ last' = [op |-> "InitializeAdmin", admin |-> bridge_admin_info,
                public_key |-> public_key, commission_program |-> commission_program,
                prior |-> admin[bridge_admin_info]]
    /\ UNCHANGED <<withdraws, lamports, mints, metadatas, tokens, retired, paid>>

InitializeAdmin ==
    \E ai \in AdminInputs, k \in PubKeys, c \in CommissionPrograms :
        process_init_admin(ai[1], ai[2], k, c)

\* --------------------------------------------------------- TransferOwnership
\* a handler that verifies the signature against the proposed key
process_transfer_ownership_result_new_key(bridge_admin_info, seeds, new_public_key, signature, recovery_id) ==
    IF check_bridge_admin(bridge_admin_info, seeds) # "Ok"
    THEN check_bridge_admin(bridge_admin_info, seeds)
    ELSE verify_ecdsa_signature(keccak(key_bytes(new_public_key)), signature,
                                recovery_id, new_public_key)

process_transfer_ownership_result(bridge_admin_info, seeds, new_public_key, signature, recovery_id) ==
    IF check_bridge_admin(bridge_admin_info, seeds) # "Ok"
    THEN check_bridge_admin(bridge_admin_info, seeds)
    ELSE verify_ecdsa_signature(keccak(key_bytes(new_public_key)), signature,
                                recovery_id, admin[bridge_admin_info].public_key)

\* a record rebuilt from scratch around the new key
transfer_ownership_record_rebuilt(bridge_admin, new_public_key) ==
    [exists |-> TRUE, is_initialized |-> TRUE, public_key |-> new_public_key,
     commission_program |-> 0]

transfer_ownership_record(bridge_admin, new_public_key) ==
    [bridge_admin EXCEPT !.public_key = new_public_key]

\* the result of the handler and the BridgeAdmin account as it leaves it:
\* the record is serialized only behind the last check
process_transfer_ownership_run(bridge_admin_info, seeds, new_public_key, signature, recovery_id) ==
    LET res == process_transfer_ownership_result(bridge_admin_info, seeds,
                   new_public_key, signature, recovery_id)
    IN [res |-> res,
        bridge_admin |-> IF res = "Ok"
                         THEN transfer_ownership_record(admin[bridge_admin_info],
                                                        new_public_key)
                         ELSE admin[bridge_admin_info]]

process_transfer_ownership(bridge_admin_info, seeds, new_public_key, signature, recovery_id) ==
    /\ Accepted(process_transfer_ownership_run(bridge_admin_info, seeds,
                    new_public_key, signature, recovery_id).res)
    /\ admin' = [admin EXCEPT ![bridge_admin_info] =
                     process_transfer_ownership_run(bridge_admin_info, seeds,
                         new_public_key, signature, recovery_id).bridge_admin]
    /\ retired' = [retired EXCEPT ![bridge_admin_info] =
                       @ \cup ({admin[bridge_admin_info].public_key} \ {new_public_key})]
    /\ last' = [op |-> "TransferOwnership", admin |-> bridge_admin_info,
                new_public_key |-> new_public_key, signer |-> signature.signer,
                old_public_key |-> admin[bridge_admin_info].public_key]
    /\ UNCHANGED <<withdraws, lamports, mints, metadatas, tokens, paid>>

\* recovery ids: the one of the model's signatures, another valid one, an
\* invalid one
RecoveryIds == {0, 1, 4}

\* the signatures a caller can submit with a rotation
RotationSigs ==
    {BadSig} \cup {Sign(k, keccak(key_bytes(n))) : k \in PubKeys, n \in PubKeys}

TransferOwnership ==
    \E ai \in LiveAdminInputs, k \in PubKeys, r \in RecoveryIds, sig \in RotationSigs :
        process_transfer_ownership(ai[1], ai[2], k, sig, r)

\* ----------------------------------------------------- commission (deposits)
TokenTypes == {"Native", "FT", "NFT"}

ChargeCommission(token, amount) ==
    [tag |-> "ChargeCommission", deposit_token |-> token, deposit_token_amount |-> amount]
OtherCommissionInstruction ==
    [tag |-> "Other", deposit_token |-> "Native", deposit_token_amount |-> 0]
\* data that CommissionInstruction::try_from_slice cannot decode
MalformedData ==
    [tag |-> "Malformed", deposit_token |-> "Native", deposit_token_amount |-> 0]

\* the instructions sysvar of the transaction: the index of the running
\* instruction and the instructions before it; overflow_checks tells how
\* the build computes the u16 subtraction current_index - 1
Instruction(program_id, accounts, data) ==
    [program_id |-> program_id, accounts |-> accounts, data |-> data]

load_instruction_at_checked(index, tx) ==
    IF index + 1 <= Len(tx.before) THEN [err |-> "Ok", val |-> tx.before[index + 1]]
    ELSE [err |-> "InvalidArgument", val |-> Instruction(0, <<>>, MalformedData)]

U16 == 65536

\* a check that looks at the kind of the charge and not at its amount
verify_commission_charged_any_amount(bridge_admin_info, tx, bridge_admin, token, amount) ==
    LET current_index == Len(tx.before)
        commission_instruction ==
            load_instruction_at_checked((current_index - 1) % U16, tx)
        ci == commission_instruction.val
        commission_key == commission_address(bridge_admin_info, ci.program_id)
    IN IF current_index = 0 /\ tx.overflow_checks THEN "Panic"
       ELSE IF commission_instruction.err # "Ok" THEN commission_instruction.err
       ELSE IF ci.program_id # bridge_admin.commission_program THEN "WrongCommissionProgram"
       ELSE IF commission_key.err # "Ok" THEN commission_key.err
       ELSE IF Len(ci.accounts) = 0 THEN "Panic"
       ELSE IF commission_key.val # ci.accounts[1] THEN "WrongCommissionAccount"
       ELSE IF ci.data.tag = "Malformed" THEN "BorshIoError"
       ELSE IF ci.data.tag = "ChargeCommission" /\ ci.data.deposit_token = token
            THEN "Ok"
       ELSE "WrongCommissionArguments"

verify_commission_charged(bridge_admin_info, tx, bridge_admin, token, amount) ==
    LET current_index == Len(tx.before)
        commission_instruction ==
            load_instruction_at_checked((current_index - 1) % U16, tx)
        ci == commission_instruction.val
        commission_key == commission_address(bridge_admin_info, ci.program_id)
    IN IF current_index = 0 /\ tx.overflow_checks THEN "Panic"
       ELSE IF commission_instruction.err # "Ok" THEN commission_instruction.err
       ELSE IF ci.program_id # bridge_admin.commission_program THEN "WrongCommissionProgram"
       ELSE IF commission_key.err # "Ok" THEN commission_key.err
       ELSE IF Len(ci.accounts) = 0 THEN "Panic"
       ELSE IF commission_key.val # ci.accounts[1] THEN "WrongCommissionAccount"
       ELSE IF ci.data.tag = "Malformed" THEN "BorshIoError"
       ELSE IF /\ ci.data.tag = "ChargeCommission"
               /\ ci.data.deposit_token = token
               /\ ci.data.deposit_token_amount = amount
            THEN "Ok"
       ELSE "WrongCommissionArguments"

\* ------------------------------------------------------------- DepositNative
\* system_instruction::transfer invoked on behalf of the signer `from`
system_transfer_result(from, amount) ==
    IF lamports[from] < amount THEN "InsufficientFunds" ELSE "Ok"

process_deposit_native_result(bridge_admin_info, owner_info, tx, seeds, amount) ==
    LET bridge_admin == admin[bridge_admin_info]
        charged == verify_commission_charged(bridge_admin_info, tx, bridge_admin, "Native", amount)
    IN IF check_bridge_admin(bridge_admin_info, seeds) # "Ok"
       THEN check_bridge_admin(bridge_admin_info, seeds)
       ELSE IF charged # "Ok" THEN charged
       ELSE system_transfer_result(owner_info, amount)

process_deposit_native(bridge_admin_info, owner_info, tx, seeds, amount) ==
    /\ Accepted(process_deposit_native_result(bridge_admin_info, owner_info, tx, seeds, amount))
    /\ lamports' = [lamports EXCEPT ![owner_info] = @ - amount,
                                    ![bridge_admin_info] = @ + amount]
    /\ last' = [op |-> "DepositNative", admin |-> bridge_admin_info, owner |-> owner_info,
                amount |-> amount, tx |-> tx]
    /\ UNCHANGED <<admin, withdraws, mints, metadatas, tokens, retired, paid>>

\* the transactions a depositor can build around a deposit of (token, amount)
\* under the BridgeAdmin a: no instruction before the deposit, or one
PrevPrograms == 1..(MaxProgram + 1)
PrevData(token, amount) ==
    {ChargeCommission(token, amount),
     ChargeCommission(token, amount + 1),
     ChargeCommission(IF token = "Native" THEN "FT" ELSE "Native", amount),
     OtherCommissionInstruction, MalformedData}
PrevAccounts(a, p) ==
    {<<>>, <<a>>} \cup (IF commission_address(a, p).err = "Ok"
                        THEN {<<commission_address(a, p).val>>} ELSE {})
PrevInstructions(a, token, amount) ==
    UNION {{Instruction(p, acc, d) : acc \in PrevAccounts(a, p), d \in PrevData(token, amount)} :
              p \in PrevPrograms}
Transactions(a, token, amount) ==
    {[before |-> <<>>, overflow_checks |-> oc] : oc \in BOOLEAN}
    \cup {[before |-> <<i>>, overflow_checks |-> TRUE] : i \in PrevInstructions(a, token, amount)}

DepositNative ==
    \E ai \in LiveAdminInputs, o \in Owners, amount \in Amounts :
        \E tx \in Transactions(ai[1], "Native", amount) :
            process_deposit_native(ai[1], o, tx, ai[2], amount)

\* ------------------------------------------------------------ WithdrawNative
\* a handler that takes whatever withdraw account the caller passes
check_withdraw_key_any(origin, withdraw_info) == "Ok"

\* the withdraw account must be the address derived from the origin
check_withdraw_key(origin, withdraw_info) ==
    IF find_program_address(origin) # withdraw_info THEN "WrongNonce" ELSE "Ok"

\* a handler that creates the record only if needed and never looks at it
create_withdraw_account_if_needed(ws, ms, withdraw_info, origin) == "Ok"

\* the per-origin record: exclusive creation at the withdraw account, signed
\* with the seeds of the origin, then the initialized flag; ws and ms are
\* the withdraw and mint accounts as the handler has left them so far
create_withdraw_account(ws, ms, withdraw_info, origin) ==
    LET created == call_create_account(in_use(ws, ms, withdraw_info), withdraw_info,
                                       find_program_address(origin))
    IN IF created # "Ok" THEN created
       ELSE IF ws[withdraw_info].is_initialized THEN "AlreadyInUse"
       ELSE "Ok"

\* a handler that tests the balance of the receiver instead of the balance
\* of the bridge account
process_withdraw_native_result_owner_funds(bridge_admin_info, owner_info, withdraw_info, seeds, signature, recovery_id, path, origin, amount) ==
    LET bridge_admin == admin[bridge_admin_info]
        content == content_hash(origin, owner_info, PROGRAM_ID,
                                get_operation(new_native_transfer(amount)))
        root == get_merkle_root(content, path)
        verified == verify_ecdsa_signature(root.val, signature, recovery_id,
                                           bridge_admin.public_key)
    IN IF check_bridge_admin(bridge_admin_info, seeds) # "Ok"
       THEN check_bridge_admin(bridge_admin_info, seeds)
       ELSE IF root.err # "Ok" THEN root.err
       ELSE IF verified # "Ok" THEN verified
       ELSE IF lamports[owner_info] < amount THEN "WrongBalance"
       ELSE IF check_withdraw_key(origin, withdraw_info) # "Ok"
            THEN check_withdraw_key(origin, withdraw_info)
       ELSE create_withdraw_account(withdraws, mints, withdraw_info, origin)

\* a handler that pays without looking at the balance of the bridge account
process_withdraw_native_result_unfunded(bridge_admin_info, owner_info, withdraw_info, seeds, signature, recovery_id, path, origin, amount) ==
    LET bridge_admin == admin[bridge_admin_info]
        content == content_hash(origin, owner_info, PROGRAM_ID,
                                get_operation(new_native_transfer(amount)))
        root == get_merkle_root(content, path)
        verified == verify_ecdsa_signature(root.val, signature, recovery_id,
                                           bridge_admin.public_key)
    IN IF check_bridge_admin(bridge_admin_info, seeds) # "Ok"
       THEN check_bridge_admin(bridge_admin_info, seeds)
       ELSE IF root.err # "Ok" THEN root.err
       ELSE IF verified # "Ok" THEN verified
       ELSE IF check_withdraw_key(origin, withdraw_info) # "Ok"
            THEN check_withdraw_key(origin, withdraw_info)
       ELSE create_withdraw_account(withdraws, mints, withdraw_info, origin)

process_withdraw_native_result(bridge_admin_info, owner_info, withdraw_info, seeds, signature, recovery_id, path, origin, amount) ==
    LET bridge_admin == admin[bridge_admin_info]
        content == content_hash(origin, owner_info, PROGRAM_ID,
                                get_operation(new_native_transfer(amount)))
        root == get_merkle_root(content, path)
        verified == verify_ecdsa_signature(root.val, signature, recovery_id,
                                           bridge_admin.public_key)
    IN IF check_bridge_admin(bridge_admin_info, seeds) # "Ok"
       THEN check_bridge_admin(bridge_admin_info, seeds)
       ELSE IF root.err # "Ok" THEN root.err
       ELSE IF verified # "Ok" THEN verified
       ELSE IF lamports[bridge_admin_info] < amount THEN "WrongBalance"
       ELSE IF check_withdraw_key(origin, withdraw_info) # "Ok"
            THEN check_withdraw_key(origin, withdraw_info)
       ELSE create_withdraw_account(withdraws, mints, withdraw_info, origin)

\* a record written without the initialized flag
withdraw_record_unmarked(token_type, origin, mint, amount, receiver) ==
    [exists |-> TRUE, is_initialized |-> FALSE, token_type |-> token_type,
     origin |-> origin, mint |-> mint, amount |-> amount, receiver_address |-> receiver]

\* a record written without its mint
withdraw_record_no_mint(token_type, origin, mint, amount, receiver) ==
    [exists |-> TRUE, is_initialized |-> TRUE, token_type |-> token_type,
     origin |-> origin, mint |-> <<>>, amount |-> amount, receiver_address |-> receiver]

withdraw_record(token_type, origin, mint, amount, receiver) ==
    [exists |-> TRUE, is_initialized |-> TRUE, token_type |-> token_type,
     origin |-> origin, mint |-> mint, amount |-> amount, receiver_address |-> receiver]

process_withdraw_native(bridge_admin_info, owner_info, withdraw_info, seeds, signature, recovery_id, path, origin, amount) ==
    /\ Accepted(process_withdraw_native_result(bridge_admin_info, owner_info, withdraw_info,
                    seeds, signature, recovery_id, path, origin, amount))
    /\ lamports' = [lamports EXCEPT ![bridge_admin_info] = @ - amount,
                                    ![owner_info] = @ + amount]
    /\ withdraws' = [withdraws EXCEPT ![withdraw_info] =
                         withdraw_record("Native", origin, <<>>, amount, owner_info)]
    /\ last' = [op |-> "WithdrawNative", admin |-> bridge_admin_info, owner |-> owner_info,
                origin |-> origin, amount |-> amount, withdraw |-> withdraw_info,
                signer |-> signature.signer]
    /\ paid' = [paid EXCEPT ![origin] = @ + 1]
    /\ UNCHANGED <<admin, mints, metadatas, tokens, retired>>

\* merkle paths a relayer can submit: siblings are raw words or the leaf
\* hashes of other transfers
OtherLeaf == content_hash(1, 1, PROGRAM_ID, get_operation(new_native_transfer(1)))
Paths == {<<>>, <<Raw(1)>>, <<OtherLeaf>>} \cup {<<Raw(1), Raw(n)>> : n \in 2..MaxPathLen}

\* the signatures a caller can submit with a withdrawal of a content leaf
\* along a path: a malformed one, and a key's signature over the root of the
\* path, over the bare leaf or over a rotation message, with a recovery id
SigChoices ==
    {[signer |-> 0, over |-> "root", reid |-> 0]}
    \cup {[signer |-> k, over |-> "root", reid |-> r] : k \in PubKeys, r \in {0, 1, 4}}
    \cup {[signer |-> k, over |-> o, reid |-> 0] : k \in PubKeys, o \in {"leaf", "rotation"}}

MakeSig(c, content, path) ==
    IF c.signer = 0 THEN BadSig
    ELSE IF c.over = "root" THEN Sign(c.signer, get_merkle_root(content, path).val)
    ELSE IF c.over = "leaf" THEN Sign(c.signer, content)
    ELSE Sign(c.signer, keccak(key_bytes(c.signer)))

\* (the conjuncts in front of the inner quantifier follow from the result
\* being Ok; they only order the evaluation)
WithdrawNative ==
    \E ai \in LiveAdminInputs, o \in Owners, w \in WithdrawAddrs, origin \in Origins,
       amount \in Amounts :
        /\ lamports[ai[1]] >= amount
        /\ create_withdraw_account(withdraws, mints, w, origin) = "Ok"
        /\ \E path \in Paths, c \in SigChoices :
              process_withdraw_native(ai[1], o, w, ai[2],
                  MakeSig(c, content_hash(origin, o, PROGRAM_ID,
                                          get_operation(new_native_transfer(amount))), path),
                  c.reid, path, origin, amount)

\* ------------------------------------------------------------ token helpers
\* str::trim_matches(char::from(0)): strips leading and trailing NUL bytes
RECURSIVE trim_start(_)
trim_start(str) == IF Len(str) > 0 /\ str[1] = 0 THEN trim_start(Tail(str)) ELSE str
RECURSIVE trim_end(_)
trim_end(str) ==
    IF Len(str) > 0 /\ str[Len(str)] = 0 THEN trim_end(SubSeq(str, 1, Len(str) - 1)) ELSE str
trim_matches(str) == trim_end(trim_start(str))

\* SignedMetadata of the instruction data
Meta1 == [name |-> <<78>>, symbol |-> <<83>>, uri |-> <<85>>, decimals |-> 0]
SignedMetas == {Meta1}

\* the token-metadata program stores the strings padded with NUL bytes
puffed(str) == str \o <<0, 0>>

call_create_metadata(md, mint_addr, data) ==
    [md EXCEPT ![mint_addr] =
        [exists |-> TRUE, name |-> puffed(data.name), symbol |-> puffed(data.symbol),
         uri |-> puffed(data.uri), collection |-> <<>>]]

call_init_mint(ms, mint_addr, mint_authority, decimals) ==
    [ms EXCEPT ![mint_addr] =
        [exists |-> TRUE, mint_authority |-> mint_authority, decimals |-> decimals]]

\* lib::call_create_associated_account when the account holds no data yet
create_associated_if_empty(tk, associated) ==
    [tk EXCEPT ![associated] = IF @ < 0 THEN 0 ELSE @]

\* a mint instruction that mints nothing
call_mint_to_nothing(tk, account, amount) == tk

call_mint_to(tk, account, amount) == [tk EXCEPT ![account] = @ + amount]

call_transfer_token(tk, from, to, amount) ==
    [tk EXCEPT ![from] = @ - amount, ![to] = @ + amount]

call_burn_token(tk, associated, amount) == [tk EXCEPT ![associated] = @ - amount]

\* result and in-flight mint/metadata accounts of try_mint_token_with_meta
try_mint_token_with_meta(bridge_admin_info, token_seed, signed_meta, mint_info) ==
    IF find_program_address(token_seed) # mint_info
    THEN [res |-> "WrongTokenSeed", mints |-> mints, metadatas |-> metadatas]
    ELSE IF signed_meta = <<>>
    THEN [res |-> "NoTokenMeta", mints |-> mints, metadatas |-> metadatas]
    ELSE IF in_use(withdraws, mints, mint_info)
    THEN [res |-> "Ok", mints |-> mints, metadatas |-> metadatas]
    ELSE IF call_create_account(FALSE, mint_info, find_program_address(token_seed)) # "Ok"
    THEN [res |-> call_create_account(FALSE, mint_info, find_program_address(token_seed)),
          mints |-> mints, metadatas |-> metadatas]
    ELSE [res |-> "Ok",
          mints |-> call_init_mint(mints, mint_info, bridge_admin_info, signed_meta[1].decimals),
          metadatas |-> call_create_metadata(metadatas, mint_info, signed_meta[1])]

\* --------------------------------------------------------------- WithdrawFT
\* the result of the handler and the accounts as it leaves them
process_withdraw_ft_run(bridge_admin_info, mint_info, metadata_info, owner_info, owner_associated_info, bridge_associated_info, withdraw_info, seeds, signature, recovery_id, path, origin, amount, token_seed, signed_meta) ==
    LET bridge_admin == admin[bridge_admin_info]
        minted == IF token_seed # <<>>
                  THEN try_mint_token_with_meta(bridge_admin_info, token_seed[1],
                                                signed_meta, mint_info)
                  ELSE [res |-> "Ok", mints |-> mints, metadatas |-> metadatas]
        md == minted.metadatas[mint_info]
        mi == minted.mints[mint_info]
        content == content_hash(origin, owner_info, PROGRAM_ID,
                       get_operation(new_ft_transfer(mint_info, amount,
                           trim_matches(md.name), trim_matches(md.symbol),
                           trim_matches(md.uri))))
        root == get_merkle_root(content, path)
        verified == verify_ecdsa_signature(root.val, signature, recovery_id,
                                           bridge_admin.public_key)
        tk1 == create_associated_if_empty(tokens, bridge_associated_info)
        bridge_amount == tk1[bridge_associated_info]
        tk2 == create_associated_if_empty(tk1, owner_associated_info)
        tk3 == IF bridge_amount < amount
               THEN call_mint_to(tk2, bridge_associated_info, amount - bridge_amount)
               ELSE tk2
        tk4 == call_transfer_token(tk3, bridge_associated_info, owner_associated_info, amount)
        res ==
            IF check_bridge_admin(bridge_admin_info, seeds) # "Ok"
            THEN check_bridge_admin(bridge_admin_info, seeds)
            ELSE IF metadata_info # find_metadata_pda(mint_info) THEN "WrongMetadataAccount"
            ELSE IF minted.res # "Ok" THEN minted.res
            ELSE IF ~md.exists THEN "BorshIoError"
            ELSE IF ~mi.exists THEN "InvalidAccountData"
            ELSE IF root.err # "Ok" THEN root.err
            ELSE IF verified # "Ok" THEN verified
            ELSE IF bridge_associated_info #
                        get_associated_token_address(bridge_admin_info, mint_info)
                 THEN "WrongTokenAccount"
            ELSE IF owner_associated_info #
                        get_associated_token_address(owner_info, mint_info)
                 THEN "WrongTokenAccount"
            ELSE IF bridge_amount < amount /\ mi.mint_authority # bridge_admin_info
                 THEN "OwnerMismatch"
            ELSE IF check_withdraw_key(origin, withdraw_info) # "Ok"
                 THEN check_withdraw_key(origin, withdraw_info)
            ELSE create_withdraw_account(withdraws, minted.mints, withdraw_info, origin)
    IN IF res # "Ok"
       THEN [res |-> res, mints |-> mints, metadatas |-> metadatas, tokens |-> tokens,
             withdraws |-> withdraws]
       ELSE [res |-> "Ok", mints |-> minted.mints, metadatas |-> minted.metadatas,
             tokens |-> tk4,
             withdraws |-> [withdraws EXCEPT ![withdraw_info] =
                 withdraw_record("FT", origin, <<mint_info>>, amount, owner_info)]]

process_withdraw_ft(bridge_admin_info, mint_info, metadata_info, owner_info, owner_associated_info, bridge_associated_info, withdraw_info, seeds, signature, recovery_id, path, origin, amount, token_seed, signed_meta) ==
    LET run == process_withdraw_ft_run(bridge_admin_info, mint_info, metadata_info,
                   owner_info, owner_associated_info, bridge_associated_info,
                   withdraw_info, seeds, signature, recovery_id, path, origin, amount,
                   token_seed, signed_meta)
    IN /\ Accepted(run.res)
       /\ mints' = run.mints
       /\ metadatas' = run.metadatas
       /\ tokens' = run.tokens
       /\ withdraws' = run.withdraws
       /\ last' = [op |-> "WithdrawFT", admin |-> bridge_admin_info, owner |-> owner_info,
                   mint |-> mint_info,
                   origin |-> origin, amount |-> amount, withdraw |-> withdraw_info,
                   signer |-> signature.signer]
       /\ paid' = [paid EXCEPT ![origin] = @ + 1]
       /\ UNCHANGED <<admin, lamports, retired>>

\* what a caller of a token withdrawal can submit
TokenSeedInputs == {<<>>} \cup {<<t>> : t \in 1..(MaxTokenSeed + 1)}
SignedMetaInputs == {<<>>} \cup {<<m>> : m \in SignedMetas}
TokenPaths == {<<>>, <<Raw(1)>>}
TokenSigChoices ==
    {[signer |-> k, over |-> "root", reid |-> 0] : k \in 0..MaxKey}

\* the leaf a relayer signs for a token of the bridge
ft_leaf(origin, owner, mint_addr, amount, data) ==
    content_hash(origin, owner, PROGRAM_ID,
        get_operation(new_ft_transfer(mint_addr, amount, data.name, data.symbol, data.uri)))

WithdrawFT ==
    \E ai \in LiveAdminInputs, m \in Mints, o \in Owners, w \in WithdrawAddrs,
       origin \in Origins, amount \in Amounts :
        /\ create_withdraw_account(withdraws, mints, w, origin) = "Ok"
        /\ \E ts \in TokenSeedInputs, sm \in SignedMetaInputs, data \in SignedMetas,
              path \in TokenPaths, c \in TokenSigChoices :
              process_withdraw_ft(ai[1], m, find_metadata_pda(m), o,
                  get_associated_token_address(o, m),
                  get_associated_token_address(ai[1], m), w, ai[2],
                  MakeSig(c, ft_leaf(origin, o, m, amount, data), path),
                  c.reid, path, origin, amount, ts, sm)

\* -------------------------------------------------------------- WithdrawNFT
\* the name and symbol hashed into the leaf are the collection's when the
\* token's metadata names a collection
process_withdraw_nft_run(bridge_admin_info, mint_info, metadata_info, owner_info, owner_associated_info, bridge_associated_info, withdraw_info, collection_metadata_info, seeds, signature, recovery_id, path, origin, token_seed, signed_meta) ==
    LET bridge_admin == admin[bridge_admin_info]
        minted == IF token_seed # <<>>
                  THEN try_mint_token_with_meta(bridge_admin_info, token_seed[1],
                                                signed_meta, mint_info)
                  ELSE [res |-> "Ok", mints |-> mints, metadatas |-> metadatas]
        md == minted.metadatas[mint_info]
        has_collection == md.collection # <<>>
        collection_md == minted.metadatas[md.collection[1]]
        name == IF has_collection THEN collection_md.name ELSE md.name
        symbol == IF has_collection THEN collection_md.symbol ELSE md.symbol
        content == content_hash(origin, owner_info, PROGRAM_ID,
                       get_operation(new_nft_transfer(mint_info, md.collection,
                           trim_matches(name), trim_matches(symbol),
                           trim_matches(md.uri))))
        root == get_merkle_root(content, path)
        verified == verify_ecdsa_signature(root.val, signature, recovery_id,
                                           bridge_admin.public_key)
        tk1 == create_associated_if_empty(tokens, bridge_associated_info)
        bridge_amount == tk1[bridge_associated_info]
        tk2 == create_associated_if_empty(tk1, owner_associated_info)
        tk3 == IF bridge_amount = 0
               THEN call_mint_to(tk2, bridge_associated_info, 1)
               ELSE tk2
        tk4 == call_transfer_token(tk3, bridge_associated_info, owner_associated_info, 1)
        res ==
            IF check_bridge_admin(bridge_admin_info, seeds) # "Ok"
            THEN check_bridge_admin(bridge_admin_info, seeds)
            ELSE IF metadata_info # find_metadata_pda(mint_info) THEN "WrongMetadataAccount"
            ELSE IF minted.res # "Ok" THEN minted.res
            ELSE IF ~md.exists THEN "BorshIoError"
            ELSE IF has_collection
                    /\ collection_metadata_info # find_metadata_pda(md.collection[1])
                 THEN "WrongMetadataAccount"
            ELSE IF has_collection /\ ~collection_md.exists THEN "BorshIoError"
            ELSE IF root.err # "Ok" THEN root.err
            ELSE IF verified # "Ok" THEN verified
            ELSE IF bridge_associated_info #
                        get_associated_token_address(bridge_admin_info, mint_info)
                 THEN "WrongTokenAccount"
            ELSE IF ~minted.mints[mint_info].exists THEN "InvalidAccountData"
            ELSE IF owner_associated_info #
                        get_associated_token_address(owner_info, mint_info)
                 THEN "WrongTokenAccount"
            ELSE IF bridge_amount = 0
                    /\ minted.mints[mint_info].mint_authority # bridge_admin_info
                 THEN "OwnerMismatch"
            ELSE IF check_withdraw_key(origin, withdraw_info) # "Ok"
                 THEN check_withdraw_key(origin, withdraw_info)
            ELSE create_withdraw_account(withdraws, minted.mints, withdraw_info, origin)
    IN IF res # "Ok"
       THEN [res |-> res, mints |-> mints, metadatas |-> metadatas, tokens |-> tokens,
             withdraws |-> withdraws]
       ELSE [res |-> "Ok", mints |-> minted.mints, metadatas |-> minted.metadatas,
             tokens |-> tk4,
             withdraws |-> [withdraws EXCEPT ![withdraw_info] =
                 withdraw_record("NFT", origin, <<mint_info>>, 1, owner_info)]]

process_withdraw_nft(bridge_admin_info, mint_info, metadata_info, owner_info, owner_associated_info, bridge_associated_info, withdraw_info, collection_metadata_info, seeds, signature, recovery_id, path, origin, token_seed, signed_meta) ==
    LET run == process_withdraw_nft_run(bridge_admin_info, mint_info, metadata_info,
                   owner_info, owner_associated_info, bridge_associated_info,
                   withdraw_info, collection_metadata_info, seeds, signature,
                   recovery_id, path, origin, token_seed, signed_meta)
    IN /\ Accepted(run.res)
       /\ mints' = run.mints
       /\ metadatas' = run.metadatas
       /\ tokens' = run.tokens
       /\ withdraws' = run.withdraws
       /\ last' = [op |-> "WithdrawNFT", admin |-> bridge_admin_info, owner |-> owner_info,
                   mint |-> mint_info,
                   origin |-> origin, amount |-> 1, withdraw |-> withdraw_info,
                   signer |-> signature.signer]
       /\ paid' = [paid EXCEPT ![origin] = @ + 1]
       /\ UNCHANGED <<admin, lamports, retired>>

nft_leaf(origin, owner, mint_addr, data) ==
    content_hash(origin, owner, PROGRAM_ID,
        get_operation(new_nft_transfer(mint_addr, <<>>, data.name, data.symbol, data.uri)))

WithdrawNFT ==
    \E ai \in LiveAdminInputs, m \in Mints, o \in Owners, w \in WithdrawAddrs,
       origin \in Origins :
        /\ create_withdraw_account(withdraws, mints, w, origin) = "Ok"
        /\ \E ts \in TokenSeedInputs, sm \in SignedMetaInputs, data \in SignedMetas,
              path \in TokenPaths, c \in TokenSigChoices :
              process_withdraw_nft(ai[1], m, find_metadata_pda(m), o,
                  get_associated_token_address(o, m),
                  get_associated_token_address(ai[1], m), w, find_metadata_pda(m), ai[2],
                  MakeSig(c, nft_leaf(origin, o, m, data), path),
                  c.reid, path, origin, ts, sm)

\* ------------------------------------------------------ DepositFT, DepositNFT
\* spl_token burn / transfer out of the depositor's token account
token_debit_result(associated, amount) ==
    IF tokens[associated] < 0 THEN "InvalidAccountData"
    ELSE IF tokens[associated] < amount THEN "InsufficientFunds"
    ELSE "Ok"

\* the common body of process_deposit_ft and process_deposit_nft
deposit_token_run(bridge_admin_info, mint_info, owner_associated_info, bridge_associated_info, tx, seeds, token, amount, token_seed) ==
    LET bridge_admin == admin[bridge_admin_info]
        charged == verify_commission_charged(bridge_admin_info, tx, bridge_admin,
                                             token, amount)
        tk1 == create_associated_if_empty(tokens, bridge_associated_info)
        res ==
            IF check_bridge_admin(bridge_admin_info, seeds) # "Ok"
            THEN check_bridge_admin(bridge_admin_info, seeds)
            ELSE IF charged # "Ok" THEN charged
            ELSE IF bridge_associated_info #
                        get_associated_token_address(bridge_admin_info, mint_info)
                 THEN "WrongTokenAccount"
            ELSE IF ~mints[mint_info].exists THEN "InvalidAccountData"
            ELSE IF token_seed # <<>> /\ find_program_address(token_seed[1]) # mint_info
                 THEN "WrongTokenSeed"
            ELSE token_debit_result(owner_associated_info, amount)
    IN IF res # "Ok" THEN [res |-> res, tokens |-> tokens]
       ELSE IF token_seed # <<>>
       THEN [res |-> "Ok", tokens |-> call_burn_token(tk1, owner_associated_info, amount)]
       ELSE [res |-> "Ok", tokens |-> call_transfer_token(tk1, owner_associated_info,
                                           bridge_associated_info, amount)]

process_deposit_ft_run(bridge_admin_info, mint_info, owner_associated_info, bridge_associated_info, tx, seeds, amount, token_seed) ==
    deposit_token_run(bridge_admin_info, mint_info, owner_associated_info,
                      bridge_associated_info, tx, seeds, "FT", amount, token_seed)

process_deposit_nft_run(bridge_admin_info, mint_info, owner_associated_info, bridge_associated_info, tx, seeds, token_seed) ==
    deposit_token_run(bridge_admin_info, mint_info, owner_associated_info,
                      bridge_associated_info, tx, seeds, "NFT", 1, token_seed)

process_deposit_ft(bridge_admin_info, mint_info, owner_associated_info, bridge_associated_info, owner_info, tx, seeds, amount, token_seed) ==
    LET run == process_deposit_ft_run(bridge_admin_info, mint_info, owner_associated_info,
                   bridge_associated_info, tx, seeds, amount, token_seed)
    IN /\ Accepted(run.res)
       /\ tokens' = run.tokens
       /\ last' = [op |-> "DepositFT", admin |-> bridge_admin_info, owner |-> owner_info,
                   amount |-> amount, tx |-> tx]
       /\ UNCHANGED <<admin, withdraws, lamports, mints, metadatas, retired, paid>>

process_deposit_nft(bridge_admin_info, mint_info, owner_associated_info, bridge_associated_info, owner_info, tx, seeds, token_seed) ==
    LET run == process_deposit_nft_run(bridge_admin_info, mint_info, owner_associated_info,
                   bridge_associated_info, tx, seeds, token_seed)
    IN /\ Accepted(run.res)
       /\ tokens' = run.tokens
       /\ last' = [op |-> "DepositNFT", admin |-> bridge_admin_info, owner |-> owner_info,
                   amount |-> 1, tx |-> tx]
       /\ UNCHANGED <<admin, withdraws, lamports, mints, metadatas, retired, paid>>

DepositFT ==
    \E ai \in LiveAdminInputs, m \in Mints, o \in Owners, amount \in Amounts :
        /\ tokens[get_associated_token_address(o, m)] >= amount
        /\ \E ts \in TokenSeedInputs, tx \in Transactions(ai[1], "FT", amount) :
              process_deposit_ft(ai[1], m, get_associated_token_address(o, m),
                  get_associated_token_address(ai[1], m), o, tx, ai[2], amount, ts)

DepositNFT ==
    \E ai \in LiveAdminInputs, m \in Mints, o \in Owners :
        /\ tokens[get_associated_token_address(o, m)] >= 1
        /\ \E ts \in TokenSeedInputs, tx \in Transactions(ai[1], "NFT", 1) :
              process_deposit_nft(ai[1], m, get_associated_token_address(o, m),
                  get_associated_token_address(ai[1], m), o, tx, ai[2], ts)

\* ------------------------------------------------------------ MintCollection
\* the statements of process_create_collection in the order of the code
process_create_collection_steps ==
    <<"check_bridge_admin", "token_account", "token_seed", "create_account", "init_mint",
      "create_associated_account", "mint_to", "create_metadata">>

\* a handler that creates the mint with the seeds of its address, as
\* try_mint_token_with_meta does
process_create_collection_result_with_seeds(bridge_admin_info, mint_info, bridge_associated_info, metadata_info, seeds, token_seed) ==
    IF check_bridge_admin(bridge_admin_info, seeds) # "Ok"
    THEN check_bridge_admin(bridge_admin_info, seeds)
    ELSE IF bridge_associated_info #
                get_associated_token_address(bridge_admin_info, mint_info)
         THEN "WrongTokenAccount"
    ELSE IF find_program_address(token_seed) # mint_info THEN "WrongTokenSeed"
    ELSE IF call_create_account(in_use(withdraws, mints, mint_info), mint_info,
                                find_program_address(token_seed)) # "Ok"
         THEN call_create_account(in_use(withdraws, mints, mint_info), mint_info,
                                  find_program_address(token_seed))
    ELSE IF metadata_info # find_metadata_pda(mint_info) THEN "InvalidMetadataKey"
    ELSE "Ok"

\* the mint is created with the signer seeds &[]: no address is derived
\* from them, nothing signs for the mint and the creation is refused
process_create_collection_result(bridge_admin_info, mint_info, bridge_associated_info, metadata_info, seeds, token_seed) ==
    IF check_bridge_admin(bridge_admin_info, seeds) # "Ok"
    THEN check_bridge_admin(bridge_admin_info, seeds)
    ELSE IF bridge_associated_info #
                get_associated_token_address(bridge_admin_info, mint_info)
         THEN "WrongTokenAccount"
    ELSE IF find_program_address(token_seed) # mint_info THEN "WrongTokenSeed"
    ELSE IF call_create_account(in_use(withdraws, mints, mint_info), mint_info, NoSeeds) # "Ok"
         THEN call_create_account(in_use(withdraws, mints, mint_info), mint_info, NoSeeds)
    ELSE IF metadata_info # find_metadata_pda(mint_info) THEN "InvalidMetadataKey"
    ELSE "Ok"

\* the result of the handler and the accounts as it leaves them
process_create_collection_run(bridge_admin_info, mint_info, bridge_associated_info, metadata_info, seeds, data, token_seed) ==
    LET res == process_create_collection_result(bridge_admin_info, mint_info,
                   bridge_associated_info, metadata_info, seeds, token_seed)
    IN IF res # "Ok"
       THEN [res |-> res, mints |-> mints, metadatas |-> metadatas, tokens |-> tokens]
       ELSE [res |-> "Ok",
             mints |-> call_init_mint(mints, mint_info, bridge_admin_info, 0),
             metadatas |-> call_create_metadata(metadatas, mint_info, data),
             tokens |-> call_mint_to(create_associated_if_empty(tokens, bridge_associated_info),
                                     bridge_associated_info, 1)]

\* what a caller of MintCollection can submit
CollectionRequests ==
    [admin : AdminAddrs, seeds : Seeds, mint : Mints, token_seed : 1..(MaxTokenSeed + 1),
     bridge_associated : AssociatedAddrs, metadata : {find_metadata_pda(m) : m \in Mints},
     data : SignedMetas]
CollectionRun(r) ==
    process_create_collection_run(r.admin, r.mint, r.bridge_associated, r.metadata,
                                  r.seeds, r.data, r.token_seed)

\* Only requests that return Ok are steps: no MintCollection request
\* returns Ok, so MintCollection is no step of the program.
Next ==
    \/ InitializeAdmin
    \/ TransferOwnership
    \/ DepositNative
    \/ WithdrawNative
    \/ WithdrawFT
    \/ WithdrawNFT
    \/ DepositFT
    \/ DepositNFT

Spec == Init /\ [][Next]_vars

\* ------------------------------------------- deposits, any commission program
\* InitializeAdmin stores whatever program id it is given: the bridges whose
\* AdminRecord names any program a charge can come from, and the native
\* deposits under them
InitializeAnyProgram ==
    \E ai \in AdminInputs, k \in PubKeys, c \in PrevPrograms :
        process_init_admin(ai[1], ai[2], k, c)

ChargeNext ==
    \/ InitializeAnyProgram
    \/ DepositNative

ChargeSpec == Init /\ [][ChargeNext]_vars

\* ------------------------------------------------- order of a withdrawal
\* the steps of each withdraw handler in the order of its statements: the
\* leaf is built, the root computed, the signature verified; then
\* process_withdraw_native creates the withdraw account and moves the
\* lamports, while process_withdraw_ft and process_withdraw_nft mint and
\* transfer the tokens and create the withdraw account after that; the
\* record fields are written last
process_withdraw_native_steps ==
    <<"leaf", "root", "verify", "create", "transfer", "persist">>
process_withdraw_ft_steps ==
    <<"leaf", "root", "verify", "transfer", "create", "persist">>
process_withdraw_nft_steps ==
    <<"leaf", "root", "verify", "transfer", "create", "persist">>

\* ------------------------------------------------- atomicity of a request
\* the guarantee of the platform the program relies on: all account writes
\* of a request that returns an error are discarded.  The program itself
\* undoes nothing; what it contributes is the result it returns
atomic_unit(res, before, written) == IF res = "Ok" THEN written ELSE before

\* a withdraw account that was created and not yet written
CreatedWithdraw == [NoWithdraw EXCEPT !.exists = TRUE]

\* a handler that answers Ok when the withdraw account cannot be created,
\* behind the transfer of the lamports
process_withdraw_native_written_replay_ok(bridge_admin_info, owner_info, withdraw_info, seeds, signature, recovery_id, path, origin, amount) ==
    LET bridge_admin == admin[bridge_admin_info]
        content == content_hash(origin, owner_info, PROGRAM_ID,
                                get_operation(new_native_transfer(amount)))
        root == get_merkle_root(content, path)
        verified == verify_ecdsa_signature(root.val, signature, recovery_id,
                                           bridge_admin.public_key)
        created == [withdraws EXCEPT ![withdraw_info] =
                        IF @.exists THEN @ ELSE CreatedWithdraw]
        moved == [lamports EXCEPT ![bridge_admin_info] = @ - amount,
                                  ![owner_info] = @ + amount]
        none == [lamports |-> lamports, withdraws |-> withdraws]
    IN IF check_bridge_admin(bridge_admin_info, seeds) # "Ok"
       THEN [res |-> check_bridge_admin(bridge_admin_info, seeds)] @@ none
       ELSE IF root.err # "Ok" THEN [res |-> root.err] @@ none
       ELSE IF verified # "Ok" THEN [res |-> verified] @@ none
       ELSE IF lamports[bridge_admin_info] < amount THEN [res |-> "WrongBalance"] @@ none
       ELSE IF check_withdraw_key(origin, withdraw_info) # "Ok"
            THEN [res |-> check_withdraw_key(origin, withdraw_info)] @@ none
       ELSE IF call_create_account(in_use(withdraws, mints, withdraw_info), withdraw_info,
                                   find_program_address(origin)) # "Ok"
            THEN [res |-> "Ok", lamports |-> moved, withdraws |-> withdraws]
       ELSE [res |-> "Ok", lamports |-> moved,
             withdraws |-> [created EXCEPT ![withdraw_info] =
                 withdraw_record("Native", origin, <<>>, amount, owner_info)]]

\* process_withdraw_native statement by statement: its result and the
\* accounts as it has written them when it returns
process_withdraw_native_written(bridge_admin_info, owner_info, withdraw_info, seeds, signature, recovery_id, path, origin, amount) ==
    LET bridge_admin == admin[bridge_admin_info]
        content == content_hash(origin, owner_info, PROGRAM_ID,
                                get_operation(new_native_transfer(amount)))
        root == get_merkle_root(content, path)
        verified == verify_ecdsa_signature(root.val, signature, recovery_id,
                                           bridge_admin.public_key)
        created == [withdraws EXCEPT ![withdraw_info] =
                        IF @.exists THEN @ ELSE CreatedWithdraw]
        moved == [lamports EXCEPT ![bridge_admin_info] = @ - amount,
                                  ![owner_info] = @ + amount]
        none == [lamports |-> lamports, withdraws |-> withdraws]
    IN IF check_bridge_admin(bridge_admin_info, seeds) # "Ok"
       THEN [res |-> check_bridge_admin(bridge_admin_info, seeds)] @@ none
       ELSE IF root.err # "Ok" THEN [res |-> root.err] @@ none
       ELSE IF verified # "Ok" THEN [res |-> verified] @@ none
       ELSE IF lamports[bridge_admin_info] < amount THEN [res |-> "WrongBalance"] @@ none
       ELSE IF check_withdraw_key(origin, withdraw_info) # "Ok"
            THEN [res |-> check_withdraw_key(origin, withdraw_info)] @@ none
       ELSE IF call_create_account(in_use(withdraws, mints, withdraw_info), withdraw_info,
                                   find_program_address(origin)) # "Ok"
            THEN [res |-> call_create_account(in_use(withdraws, mints, withdraw_info),
                              withdraw_info, find_program_address(origin))] @@ none
       ELSE IF created[withdraw_info].is_initialized
            THEN [res |-> "AlreadyInUse", lamports |-> moved, withdraws |-> created]
       ELSE [res |-> "Ok", lamports |-> moved,
             withdraws |-> [created EXCEPT ![withdraw_info] =
                 withdraw_record("Native", origin, <<>>, amount, owner_info)]]

\* process_withdraw_ft statement by statement
process_withdraw_ft_written(bridge_admin_info, mint_info, metadata_info, owner_info, owner_associated_info, bridge_associated_info, withdraw_info, seeds, signature, recovery_id, path, origin, amount, token_seed, signed_meta) ==
    LET bridge_admin == admin[bridge_admin_info]
        minted == IF token_seed # <<>>
                  THEN try_mint_token_with_meta(bridge_admin_info, token_seed[1],
                                                signed_meta, mint_info)
                  ELSE [res |-> "Ok", mints |-> mints, metadatas |-> metadatas]
        md == minted.metadatas[mint_info]
        mi == minted.mints[mint_info]
        content == content_hash(origin, owner_info, PROGRAM_ID,
                       get_operation(new_ft_transfer(mint_info, amount,
                           trim_matches(md.name), trim_matches(md.symbol),
                           trim_matches(md.uri))))
        root == get_merkle_root(content, path)
        verified == verify_ecdsa_signature(root.val, signature, recovery_id,
                                           bridge_admin.public_key)
        tk1 == create_associated_if_empty(tokens, bridge_associated_info)
        bridge_amount == tk1[bridge_associated_info]
        tk2 == create_associated_if_empty(tk1, owner_associated_info)
        tk3 == IF bridge_amount < amount
               THEN call_mint_to(tk2, bridge_associated_info, amount - bridge_amount)
               ELSE tk2
        tk4 == call_transfer_token(tk3, bridge_associated_info, owner_associated_info, amount)
        created == [withdraws EXCEPT ![withdraw_info] =
                        IF @.exists THEN @ ELSE CreatedWithdraw]
        none == [mints |-> mints, metadatas |-> metadatas, tokens |-> tokens,
                 withdraws |-> withdraws]
        with_mint == [mints |-> minted.mints, metadatas |-> minted.metadatas,
                      tokens |-> tokens, withdraws |-> withdraws]
    IN IF check_bridge_admin(bridge_admin_info, seeds) # "Ok"
       THEN [res |-> check_bridge_admin(bridge_admin_info, seeds)] @@ none
       ELSE IF metadata_info # find_metadata_pda(mint_info)
            THEN [res |-> "WrongMetadataAccount"] @@ none
       ELSE IF minted.res # "Ok" THEN [res |-> minted.res] @@ none
       ELSE IF ~md.exists THEN [res |-> "BorshIoError"] @@ with_mint
       ELSE IF ~mi.exists THEN [res |-> "InvalidAccountData"] @@ with_mint
       ELSE IF root.err # "Ok" THEN [res |-> root.err] @@ with_mint
       ELSE IF verified # "Ok" THEN [res |-> verified] @@ with_mint
       ELSE IF bridge_associated_info #
                   get_associated_token_address(bridge_admin_info, mint_info)
            THEN [res |-> "WrongTokenAccount"] @@ with_mint
       ELSE IF owner_associated_info #
                   get_associated_token_address(owner_info, mint_info)
            THEN [with_mint EXCEPT !.tokens = tk1] @@ [res |-> "WrongTokenAccount"]
       ELSE IF bridge_amount < amount /\ mi.mint_authority # bridge_admin_info
            THEN [with_mint EXCEPT !.tokens = tk2] @@ [res |-> "OwnerMismatch"]
       ELSE IF check_withdraw_key(origin, withdraw_info) # "Ok"
            THEN [with_mint EXCEPT !.tokens = tk4]
                 @@ [res |-> check_withdraw_key(origin, withdraw_info)]
       ELSE IF call_create_account(in_use(withdraws, minted.mints, withdraw_info),
                                   withdraw_info, find_program_address(origin)) # "Ok"
            THEN [with_mint EXCEPT !.tokens = tk4]
                 @@ [res |-> call_create_account(in_use(withdraws, minted.mints, withdraw_info),
                                 withdraw_info, find_program_address(origin))]
       ELSE IF created[withdraw_info].is_initialized
            THEN [with_mint EXCEPT !.tokens = tk4, !.withdraws = created]
                 @@ [res |-> "AlreadyInUse"]
       ELSE [res |-> "Ok", mints |-> minted.mints, metadatas |-> minted.metadatas,
             tokens |-> tk4,
             withdraws |-> [created EXCEPT ![withdraw_info] =
                 withdraw_record("FT", origin, <<mint_info>>, amount, owner_info)]]

\* process_withdraw_nft statement by statement
process_withdraw_nft_written(bridge_admin_info, mint_info, metadata_info, owner_info, owner_associated_info, bridge_associated_info, withdraw_info, collection_metadata_info, seeds, signature, recovery_id, path, origin, token_seed, signed_meta) ==
    LET bridge_admin == admin[bridge_admin_info]
        minted == IF token_seed # <<>>
                  THEN try_mint_token_with_meta(bridge_admin_info, token_seed[1],
                                                signed_meta, mint_info)
                  ELSE [res |-> "Ok", mints |-> mints, metadatas |-> metadatas]
        md == minted.metadatas[mint_info]
        has_collection == md.collection # <<>>
        collection_md == minted.metadatas[md.collection[1]]
        name == IF has_collection THEN collection_md.name ELSE md.name
        symbol == IF has_collection THEN collection_md.symbol ELSE md.symbol
        content == content_hash(origin, owner_info, PROGRAM_ID,
                       get_operation(new_nft_transfer(mint_info, md.collection,
                           trim_matches(name), trim_matches(symbol),
                           trim_matches(md.uri))))
        root == get_merkle_root(content, path)
        verified == verify_ecdsa_signature(root.val, signature, recovery_id,
                                           bridge_admin.public_key)
        tk1 == create_associated_if_empty(tokens, bridge_associated_info)
        bridge_amount == tk1[bridge_associated_info]
        tk2 == create_associated_if_empty(tk1, owner_associated_info)
        tk3 == IF bridge_amount = 0
               THEN call_mint_to(tk2, bridge_associated_info, 1)
               ELSE tk2
        tk4 == call_transfer_token(tk3, bridge_associated_info, owner_associated_info, 1)
        created == [withdraws EXCEPT ![withdraw_info] =
                        IF @.exists THEN @ ELSE CreatedWithdraw]
        none == [mints |-> mints, metadatas |-> metadatas, tokens |-> tokens,
                 withdraws |-> withdraws]
        with_mint == [mints |-> minted.mints, metadatas |-> minted.metadatas,
                      tokens |-> tokens, withdraws |-> withdraws]
    IN IF check_bridge_admin(bridge_admin_info, seeds) # "Ok"
       THEN [res |-> check_bridge_admin(bridge_admin_info, seeds)] @@ none
       ELSE IF metadata_info # find_metadata_pda(mint_info)
            THEN [res |-> "WrongMetadataAccount"] @@ none
       ELSE IF minted.res # "Ok" THEN [res |-> minted.res] @@ none
       ELSE IF ~md.exists THEN [res |-> "BorshIoError"] @@ with_mint
       ELSE IF has_collection
               /\ collection_metadata_info # find_metadata_pda(md.collection[1])
            THEN [res |-> "WrongMetadataAccount"] @@ with_mint
       ELSE IF has_collection /\ ~collection_md.exists
            THEN [res |-> "BorshIoError"] @@ with_mint
       ELSE IF root.err # "Ok" THEN [res |-> root.err] @@ with_mint
       ELSE IF verified # "Ok" THEN [res |-> verified] @@ with_mint
       ELSE IF bridge_associated_info #
                   get_associated_token_address(bridge_admin_info, mint_info)
            THEN [res |-> "WrongTokenAccount"] @@ with_mint
       ELSE IF ~minted.mints[mint_info].exists
            THEN [res |-> "InvalidAccountData"] @@ with_mint
       ELSE IF owner_associated_info #
                   get_associated_token_address(owner_info, mint_info)
            THEN [with_mint EXCEPT !.tokens = tk1] @@ [res |-> "WrongTokenAccount"]
       ELSE IF bridge_amount = 0
               /\ minted.mints[mint_info].mint_authority # bridge_admin_info
            THEN [with_mint EXCEPT !.tokens = tk2] @@ [res |-> "OwnerMismatch"]
       ELSE IF check_withdraw_key(origin, withdraw_info) # "Ok"
            THEN [with_mint EXCEPT !.tokens = tk4]
                 @@ [res |-> check_withdraw_key(origin, withdraw_info)]
       ELSE IF call_create_account(in_use(withdraws, minted.mints, withdraw_info),
                                   withdraw_info, find_program_address(origin)) # "Ok"
            THEN [with_mint EXCEPT !.tokens = tk4]
                 @@ [res |-> call_create_account(in_use(withdraws, minted.mints, withdraw_info),
                                 withdraw_info, find_program_address(origin))]
       ELSE IF created[withdraw_info].is_initialized
            THEN [with_mint EXCEPT !.tokens = tk4, !.withdraws = created]
                 @@ [res |-> "AlreadyInUse"]
       ELSE [res |-> "Ok", mints |-> minted.mints, metadatas |-> minted.metadatas,
             tokens |-> tk4,
             withdraws |-> [created EXCEPT ![withdraw_info] =
                 withdraw_record("NFT", origin, <<mint_info>>, 1, owner_info)]]

\* ---------------------------------------------------- the legacy processor
\* src/src/processor.rs: an earlier bridge program whose BridgeAdmin record
\* names an admin account instead of a signing key. In LegacySpec the
\* variable admin holds the accounts passed as BridgeAdmin account: the
\* length of their data, their lamports and the record in their data; every
\* call is a step, and last holds the call and its result.

\* state::BRIDGE_ADMIN_SIZE: the flag and the 32 bytes of the admin key
BRIDGE_ADMIN_SIZE == 33

\* a usize of the target is a word of 64 bits, held as its four 16-bit
\* limbs, the most significant first; usize(x) is the word of a number
\* below 2^32, as every length of an account is
Limb == 65536
usize(x) == <<0, 0, (x \div Limb) % Limb, x % Limb>>

\* the bitwise complement of a usize, which is what ! is on an integer: the
\* complement of each limb
usize_not(x) ==
    <<Limb - 1, Limb - 1, Limb - 1 - ((x \div Limb) % Limb), Limb - 1 - (x % Limb)>>

\* Rent::is_exempt: the balance covers the minimum of an account of the size
rent_is_exempt(balance, size) == balance >= 1

\* the accounts a caller can pass as account 0: the handlers test neither
\* the owner nor the key of the account. An account of the program is created
\* with a length around the size of the record, with or without the
\* rent-exempt balance, and its data is zeroed, as the creation of an account
\* leaves it; only the program writes it afterwards. An account of another
\* owner holds whatever its owner wrote, a record marked initialized included
LegacyLens == {BRIDGE_ADMIN_SIZE - 1, BRIDGE_ADMIN_SIZE, BRIDGE_ADMIN_SIZE + 1}
LegacyRecords ==
    [owner : {"program_id"}, data_len : LegacyLens, lamports : 0..1,
     is_initialized : {FALSE}, admin : {0}]
    \cup [owner : {"other"}, data_len : LegacyLens, lamports : 0..1,
          is_initialized : BOOLEAN, admin : {0} \cup PubKeys]

LegacyInit ==
    /\ admin \in [AdminAddrs -> LegacyRecords]
    /\ withdraws = [w \in WithdrawAddrs |-> NoWithdraw]
    /\ lamports = [a \in AdminAddrs \cup Owners |-> IF a \in Owners THEN InitLamports ELSE 0]
    /\ mints = [m \in Mints |-> NoMint]
    /\ metadatas = [m \in Mints |-> NoMetadata]
    /\ tokens = [t \in AssociatedAddrs |-> 0 - 1]
    /\ retired = [a \in AdminAddrs |-> {}]
    /\ paid = [o \in Origins |-> 0]
    /\ nreq = 0
    /\ last = NoRequest

\* a call of the legacy program: its result is recorded, and the data of
\* account 0 is what the handler left in it, kept only if the result is Ok
LegacyCall(request, res, written) ==
    /\ nreq < MaxRequests
    /\ nreq' = nreq + 1
    /\ admin' = atomic_unit(res, admin, written)
    /\ last' = request @@ [res |-> res]
    /\ UNCHANGED <<withdraws, lamports, mints, metadatas, tokens, retired, paid>>

\* BorshDeserialize::deserialize of the record from the data of the account
legacy_deserialize(bridge_admin_account_info) ==
    IF admin[bridge_admin_account_info].data_len < BRIDGE_ADMIN_SIZE
    THEN "BorshIoError" ELSE "Ok"

\* process_init_admin: account 1 is read as the rent sysvar
legacy_process_init_admin_result(bridge_admin_account_info, rent_info_is_rent) ==
    LET bridge_admin == admin[bridge_admin_account_info]
    IN IF legacy_deserialize(bridge_admin_account_info) # "Ok"
       THEN legacy_deserialize(bridge_admin_account_info)
       ELSE IF bridge_admin.is_initialized THEN "AlreadyInUse"
       ELSE IF usize_not(bridge_admin.data_len) # usize(BRIDGE_ADMIN_SIZE)
            THEN "WrongDataLen"
       ELSE IF ~rent_info_is_rent THEN "InvalidArgument"
       ELSE IF ~rent_is_exempt(bridge_admin.lamports, BRIDGE_ADMIN_SIZE)
            THEN "NotRentExempt"
       ELSE "Ok"

\* the record process_init_admin serializes: the admin is the only field
\* it assigns
legacy_init_admin_record(bridge_admin, new_admin) ==
    [bridge_admin EXCEPT !.admin = new_admin]

legacy_process_init_admin(bridge_admin_account_info, rent_info_is_rent, new_admin) ==
    LegacyCall([op |-> "InitializeAdmin", account |-> bridge_admin_account_info,
                admin |-> new_admin, prior |-> admin[bridge_admin_account_info]],
               legacy_process_init_admin_result(bridge_admin_account_info,
                                                rent_info_is_rent),
               [admin EXCEPT ![bridge_admin_account_info] =
                    legacy_init_admin_record(@, new_admin)])

\* a handler that does not look at the initialized flag of the record
legacy_process_transfer_ownership_result_any_record(bridge_admin_account_info, current_admin_account_info, is_signer) ==
    IF legacy_deserialize(bridge_admin_account_info) # "Ok"
    THEN legacy_deserialize(bridge_admin_account_info)
    ELSE IF ~is_signer THEN "UnsignedAdmin"
    ELSE "Ok"

\* process_transfer_ownership: account 1 is the current admin account
legacy_process_transfer_ownership_result(bridge_admin_account_info, current_admin_account_info, is_signer) ==
    LET bridge_admin == admin[bridge_admin_account_info]
    IN IF legacy_deserialize(bridge_admin_account_info) # "Ok"
       THEN legacy_deserialize(bridge_admin_account_info)
       ELSE IF ~bridge_admin.is_initialized THEN "NotInitialized"
       ELSE IF ~is_signer THEN "UnsignedAdmin"
       ELSE "Ok"

legacy_process_transfer_ownership(bridge_admin_account_info, current_admin_account_info, is_signer, new_admin) ==
    LegacyCall([op |-> "TransferOwnership", account |-> bridge_admin_account_info,
                current_admin |-> current_admin_account_info, is_signer |-> is_signer,
                admin |-> new_admin, prior |-> admin[bridge_admin_account_info]],
               legacy_process_transfer_ownership_result(bridge_admin_account_info,
                   current_admin_account_info, is_signer),
               [admin EXCEPT ![bridge_admin_account_info].admin = new_admin])

\* process_deposit_metaplex and process_withdraw_metaplex return Ok and
\* touch no account
legacy_process_deposit_metaplex == LegacyCall([op |-> "DepositMetaplex"], "Ok", admin)
legacy_process_withdraw_metaplex == LegacyCall([op |-> "WithdrawMetaplex"], "Ok", admin)

LegacyInitializeAdmin ==
    \E a \in AdminAddrs, rent \in BOOLEAN, k \in PubKeys :
        legacy_process_init_admin(a, rent, k)

LegacyTransferOwnership ==
    \E a \in AdminAddrs, signer \in PubKeys, is_signer \in BOOLEAN, k \in PubKeys :
        legacy_process_transfer_ownership(a, signer, is_signer, k)

LegacyNext ==
    \/ LegacyInitializeAdmin
    \/ LegacyTransferOwnership
    \/ legacy_process_deposit_metaplex
    \/ legacy_process_withdraw_metaplex

LegacySpec == LegacyInit /\ [][LegacyNext]_vars

\* =================================================================== claims
\* the initialized withdraw records
Withdrawn == {w \in WithdrawAddrs : withdraws[w].is_initialized}

\* C1: for each origin at most one withdrawal ever succeeds, whatever the
\* token kind, and no two WithdrawRecords hold the same origin
C1_OneWithdrawalPerOrigin ==
    /\ \A o \in Origins : paid[o] <= 1
    /\ \A w1, w2 \in Withdrawn : withdraws[w1].origin = withdraws[w2].origin => w1 = w2
    /\ \A o \in Origins : paid[o] = Cardinality({w \in Withdrawn : withdraws[w].origin = o})

\* two origins have been withdrawn, with different token kinds
C1_Witness ==
    \E w1, w2 \in Withdrawn :
        /\ withdraws[w1].origin # withdraws[w2].origin
        /\ withdraws[w1].token_type # withdraws[w2].token_type
        /\ paid[withdraws[w1].origin] = 1
        /\ paid[withdraws[w2].origin] = 1

\* ------------------------------------------------- withdrawal requests
\* the withdrawal requests a caller can submit for an origin: any BridgeAdmin
\* account (with the seeds that derive it), receiver, withdraw account, amount, path and signature;
\* a token request names a mint of the bridge, with or without its seed
WithdrawOps == {"WithdrawNative", "WithdrawFT", "WithdrawNFT"}
NativeRequests ==
    [admin : AdminAddrs, owner : Owners, withdraw : WithdrawAddrs,
     amount : Amounts, path : TokenPaths, sig : TokenSigChoices]
TokenRequests ==
    [admin : AdminAddrs, mint : Mints, owner : Owners,
     withdraw : WithdrawAddrs, amount : Amounts, path : TokenPaths, sig : TokenSigChoices,
     token_seed : {<<>>} \cup {<<t>> : t \in TokenSeeds},
     signed_meta : {<<m>> : m \in SignedMetas}]

seeds_of(bridge_admin_info) == bridge_admin_info - AdminBase

native_leaf(origin, owner, amount) ==
    content_hash(origin, owner, PROGRAM_ID, get_operation(new_native_transfer(amount)))

NativeResult(r, origin) ==
    process_withdraw_native_result(r.admin, r.owner, r.withdraw, seeds_of(r.admin),
        MakeSig(r.sig, native_leaf(origin, r.owner, r.amount), r.path),
        r.sig.reid, r.path, origin, r.amount)
FTResult(r, origin) ==
    process_withdraw_ft_run(r.admin, r.mint, find_metadata_pda(r.mint), r.owner,
        get_associated_token_address(r.owner, r.mint),
        get_associated_token_address(r.admin, r.mint), r.withdraw, seeds_of(r.admin),
        MakeSig(r.sig, ft_leaf(origin, r.owner, r.mint, r.amount, Meta1), r.path),
        r.sig.reid, r.path, origin, r.amount, r.token_seed, r.signed_meta).res
NFTResult(r, origin) ==
    process_withdraw_nft_run(r.admin, r.mint, find_metadata_pda(r.mint), r.owner,
        get_associated_token_address(r.owner, r.mint),
        get_associated_token_address(r.admin, r.mint), r.withdraw,
        find_metadata_pda(r.mint), seeds_of(r.admin),
        MakeSig(r.sig, nft_leaf(origin, r.owner, r.mint, Meta1), r.path),
        r.sig.reid, r.path, origin, r.token_seed, r.signed_meta).res

\* what the checks in front of the record creation ask of a request: an
\* initialized BridgeAdmin, a non-empty path, the current key's
\* signature over the root, the derived withdraw account
AuthorizedRequest(r, origin) ==
    /\ admin[r.admin].is_initialized
    /\ r.path # <<>>
    /\ r.sig.signer = admin[r.admin].public_key
    /\ r.withdraw = find_program_address(origin)
\* ... and, for a native withdrawal, the balance of the bridge
PayableNative(r) == lamports[r.admin] >= r.amount
\* ... and, for a token of the bridge, a mint that exists or is created from
\* its seed with the signed metadata (the address of a mint that does not
\* exist holds no other account), and tokens the bridge holds or may mint
ResolvableMint(r) ==
    \/ r.token_seed = <<>> /\ mints[r.mint].exists
    \/ /\ r.token_seed # <<>>
       /\ r.mint = find_program_address(r.token_seed[1])
       /\ r.signed_meta # <<>>
       /\ mints[r.mint].exists \/ ~in_use(withdraws, mints, r.mint)
PayableFT(r) ==
    LET bridge_associated == get_associated_token_address(r.admin, r.mint)
    IN /\ ResolvableMint(r)
       /\ \/ tokens[bridge_associated] >= r.amount
          \/ ~mints[r.mint].exists
          \/ mints[r.mint].mint_authority = r.admin

\* C2 (as stated): once an origin is withdrawn, every withdrawal request
\* with that origin returns AlreadyInUse, whatever its other parameters
C2_AlwaysAlreadyInUse ==
    \A o \in Origins : paid[o] >= 1 =>
        /\ \A r \in NativeRequests : NativeResult(r, o) = "AlreadyInUse"
        /\ \A r \in TokenRequests : FTResult(r, o) = "AlreadyInUse"

\* C2 (amended): a successful withdrawal persists the record of its origin
\* at the derived address; from then on every withdrawal request with that
\* origin fails, whatever its other parameters, and it fails with
\* AlreadyInUse when it passes the checks in front of the record creation
C2_ReplayFails ==
    /\ last.op \in WithdrawOps =>
          LET rec == withdraws[find_program_address(last.origin)]
          IN /\ last.withdraw = find_program_address(last.origin)
             /\ rec.is_initialized
             /\ rec.origin = last.origin
             /\ rec.receiver_address = last.owner
             /\ rec.amount = last.amount
    /\ \A o \in Origins : paid[o] >= 1 =>
          /\ \A r \in NativeRequests :
                LET res == NativeResult(r, o)
                IN /\ res # "Ok"
                   /\ AuthorizedRequest(r, o) /\ PayableNative(r) => res = "AlreadyInUse"
          /\ \A r \in TokenRequests :
                LET res == FTResult(r, o)
                IN /\ res # "Ok"
                   /\ NFTResult(r, o) # "Ok"
                   /\ AuthorizedRequest(r, o) /\ PayableFT(r) => res = "AlreadyInUse"

\* a native withdrawal has just succeeded and the bridge can still pay a
\* request that replays its origin with another amount or receiver
C2_Witness ==
    /\ last.op = "WithdrawNative"
    /\ paid[last.origin] = 1
    /\ \E r \in NativeRequests :
          /\ AuthorizedRequest(r, last.origin) /\ PayableNative(r)
          /\ r.amount # last.amount \/ r.owner # last.owner
          /\ NativeResult(r, last.origin) = "AlreadyInUse"

\* the requests of C3: a non-empty path, the derived withdraw account, and
\* for a native withdrawal every kind of signature a caller can submit
SignedNativeRequests ==
    [admin : AdminAddrs, owner : Owners, amount : Amounts, path : {<<Raw(1)>>},
     sig : SigChoices]
SignedTokenRequests ==
    [admin : AdminAddrs, mint : Mints, owner : Owners, amount : Amounts,
     path : {<<Raw(1)>>}, sig : TokenSigChoices,
     token_seed : {<<>>} \cup {<<t>> : t \in TokenSeeds},
     signed_meta : {<<m>> : m \in SignedMetas}]
AtDerived(r, origin) == [r EXCEPT !.admin = @] @@ [withdraw |-> find_program_address(origin)]

\* the key the request's signature recovers to over the root of its leaf
RecoveredOverRoot(r, leaf) ==
    secp256k1_recover(get_merkle_root(leaf, r.path).val, r.sig.reid,
                      MakeSig(r.sig, leaf, r.path))
ByStoredKey(r, leaf) ==
    /\ RecoveredOverRoot(r, leaf).err = "Ok"
    /\ RecoveredOverRoot(r, leaf).val = admin[r.admin].public_key
\* the signature is over the root of the request's leaf, by a key that was
\* stored earlier and is not the stored key now
ByRetiredKey(r) ==
    /\ admin[r.admin].is_initialized
    /\ r.sig.signer \in retired[r.admin]
    /\ r.sig.signer # admin[r.admin].public_key
    /\ r.sig.over = "root"
    /\ r.sig.reid = 0

\* C3: a withdrawal request returns Ok only if its signature over the merkle
\* root of its leaf recovers to the key stored in the BridgeAdmin at that
\* moment; once a key is rotated away, a root it signed is rejected with
\* WrongSignature
C3_StoredKeySigns ==
    /\ last.op \in WithdrawOps => last.signer = admin[last.admin].public_key
    /\ \A o \in Origins :
          /\ \A r \in SignedNativeRequests :
                LET res == NativeResult(AtDerived(r, o), o)
                    leaf == native_leaf(o, r.owner, r.amount)
                IN /\ res = "Ok" => ByStoredKey(r, leaf)
                   /\ ByRetiredKey(r) => res = "WrongSignature"
          /\ \A r \in SignedTokenRequests :
                LET ft == FTResult(AtDerived(r, o), o)
                    nft == NFTResult(AtDerived(r, o), o)
                IN /\ ft = "Ok" => ByStoredKey(r, ft_leaf(o, r.owner, r.mint, r.amount, Meta1))
                   /\ nft = "Ok" => ByStoredKey(r, nft_leaf(o, r.owner, r.mint, Meta1))
                   /\ ByRetiredKey(r) /\ ResolvableMint(r)
                         => ft = "WrongSignature" /\ nft = "WrongSignature"

\* a withdrawal signed by the new key has succeeded after a rotation, and a
\* request signed by the retired key is refused
C3_Witness ==
    /\ last.op \in WithdrawOps
    /\ retired[last.admin] # {}
    /\ last.signer = admin[last.admin].public_key
    /\ \E o \in Origins, r \in SignedNativeRequests :
          /\ r.admin = last.admin
          /\ ByRetiredKey(r)
          /\ NativeResult(AtDerived(r, o), o) = "WrongSignature"

\* ------------------------------------------------------- admin requests
\* the RotateKey and Initialize requests a caller can submit
RotationRequests ==
    [admin : AdminAddrs, seeds : Seeds, new_public_key : PubKeys, sig : RotationSigs,
     reid : RecoveryIds]
InitRequests ==
    [admin : AdminAddrs, seeds : Seeds, public_key : PubKeys,
     commission_program : CommissionPrograms]
RotateRun(r) ==
    process_transfer_ownership_run(r.admin, r.seeds, r.new_public_key, r.sig, r.reid)
InitResult(r) == process_init_admin_result(r.admin, r.seeds)
\* the seeds of the request derive the account it names
Derived(r) == r.seeds # 0 /\ r.admin = AdminBase + r.seeds
InitializedAdmins == {a \in AdminAddrs : admin[a].is_initialized}

\* C4: a RotateKey request to K2 returns Ok only if its signature is the
\* stored key K1's over keccak(K2); the proposed key's own signature over
\* keccak(K2) is refused when K2 # K1 and the stored key stays K1
C4_RotationSignedByStoredKey ==
    /\ \A r \in RotationRequests :
          LET run == RotateRun(r)
              K1 == admin[r.admin].public_key
          IN /\ run.res = "Ok" =>
                   /\ r.sig.signer = K1
                   /\ r.sig.msg = keccak(key_bytes(r.new_public_key))
             /\ /\ Derived(r) /\ admin[r.admin].is_initialized
                /\ r.new_public_key # K1
                /\ r.sig = Sign(r.new_public_key, keccak(key_bytes(r.new_public_key)))
                => /\ run.res \in {"WrongSignature", "InvalidSignature"}
                   /\ run.bridge_admin.public_key = K1
    /\ last.op = "TransferOwnership" => last.signer = last.old_public_key

\* a rotation to another key has succeeded, and the key now proposed signs
\* its own hash (recovery id 0) and is refused
C4_Witness ==
    /\ last.op = "TransferOwnership"
    /\ last.new_public_key # last.old_public_key
    /\ \E r \in RotationRequests :
          /\ r.admin = last.admin /\ Derived(r) /\ r.reid = 0
          /\ r.new_public_key # admin[r.admin].public_key
          /\ r.sig = Sign(r.new_public_key, keccak(key_bytes(r.new_public_key)))
          /\ RotateRun(r).res = "WrongSignature"

\* a step of a successful RotateKey
RotateStep == nreq' = nreq + 1 /\ last'.op = "TransferOwnership"

\* C5: a successful RotateKey stores newKey as the authority key and leaves
\* the commission program and the initialized flag of that record, every
\* other AdminRecord, every WithdrawRecord and every balance unchanged
C5_RotateKeyFrame ==
    [][RotateStep =>
          /\ admin'[last'.admin].public_key = last'.new_public_key
          /\ admin'[last'.admin].commission_program = admin[last'.admin].commission_program
          /\ admin'[last'.admin].is_initialized = admin[last'.admin].is_initialized
          /\ admin'[last'.admin].exists = admin[last'.admin].exists
          /\ \A a \in AdminAddrs \ {last'.admin} : admin'[a] = admin[a]
          /\ withdraws' = withdraws
          /\ lamports' = lamports
          /\ tokens' = tokens
          /\ mints' = mints /\ metadatas' = metadatas]_vars

\* a rotation to another key has succeeded on a bridge that holds a
\* WithdrawRecord and a token balance
C5_Witness ==
    /\ last.op = "TransferOwnership"
    /\ last.new_public_key # last.old_public_key
    /\ admin[last.admin].public_key = last.new_public_key
    /\ admin[last.admin].commission_program \in CommissionPrograms
    /\ Withdrawn # {}
    /\ \E t \in AssociatedAddrs : tokens[t] > 0

\* C6 (as stated): a RotateKey request on an uninitialized AdminRecord returns
\* NotInitialized whatever its signature; on an initialized one it returns
\* InvalidSignature when no key is recovered and WrongSignature when the
\* recovered key is not the stored one; a request that fails leaves the
\* AdminRecord as it was
C6_RotateKeyErrors ==
    \A r \in RotationRequests :
        LET run == RotateRun(r)
            recovered == secp256k1_recover(keccak(key_bytes(r.new_public_key)),
                                           r.reid, r.sig)
        IN /\ Derived(r) /\ ~admin[r.admin].is_initialized => run.res = "NotInitialized"
           /\ Derived(r) /\ admin[r.admin].is_initialized =>
                 /\ recovered.err # "Ok" => run.res = "InvalidSignature"
                 /\ recovered.err = "Ok" /\ recovered.val # admin[r.admin].public_key
                       => run.res = "WrongSignature"
           /\ run.res # "Ok" => run.bridge_admin = admin[r.admin]

\* C7: an Initialize request that targets an initialized AdminRecord returns
\* AlreadyInUse; a request returns Ok only from Uninitialized, and then the
\* record is initialized with the supplied key and commission program
C7_InitializeOnce ==
    /\ \A r \in InitRequests :
          /\ Derived(r) /\ admin[r.admin].is_initialized => InitResult(r) = "AlreadyInUse"
          /\ InitResult(r) = "Ok" => ~admin[r.admin].is_initialized
    /\ last.op = "InitializeAdmin" =>
          /\ ~last.prior.is_initialized
          /\ admin[last.admin].is_initialized
          /\ admin[last.admin].public_key = last.public_key
          /\ admin[last.admin].commission_program = last.commission_program

\* an Initialize has just succeeded and a second one for the same record,
\* with another key, is refused
C7_Witness ==
    /\ last.op = "InitializeAdmin"
    /\ \E r \in InitRequests :
          /\ r.admin = last.admin /\ Derived(r)
          /\ r.public_key # admin[r.admin].public_key
          /\ InitResult(r) = "AlreadyInUse"

\* C8 (as stated): at most one AdminRecord of the program is initialized
C8_SingleAdminRecord == Cardinality(InitializedAdmins) <= 1

\* C9: an initialized AdminRecord stays initialized, and its fields change
\* only in a step of a successful RotateKey on that record, which changes
\* the authority key alone
C9_AdminRecordStable ==
    [][\A a \in AdminAddrs : admin[a].is_initialized =>
          /\ admin'[a].is_initialized
          /\ admin'[a] # admin[a] =>
                /\ last'.op = "TransferOwnership"
                /\ last'.admin = a
                /\ admin'[a] = [admin[a] EXCEPT !.public_key = last'.new_public_key]]_vars

\* a deposit has succeeded on a bridge whose key was rotated before
C9_Witness ==
    /\ last.op \in {"DepositNative", "DepositFT", "DepositNFT", "WithdrawNative",
                    "WithdrawFT", "WithdrawNFT"}
    /\ admin[last.admin].is_initialized
    /\ retired[last.admin] # {}
    /\ lamports[last.admin] > 0

\* ----------------------------------------------------- deposit requests
DepositOps == {"DepositNative", "DepositFT", "DepositNFT"}
\* the token kind and amount a deposit has to be charged for
deposit_kind(op) == IF op = "DepositNative" THEN "Native"
                    ELSE IF op = "DepositFT" THEN "FT" ELSE "NFT"
DepositRequests ==
    [op : {"DepositNative"}, admin : AdminAddrs, owner : Owners, mint : Mints,
     amount : Amounts, token_seed : {<<>>}]
    \cup [op : {"DepositFT"}, admin : AdminAddrs, owner : Owners, mint : Mints,
          amount : Amounts, token_seed : {<<>>} \cup {<<t>> : t \in TokenSeeds}]
    \cup [op : {"DepositNFT"}, admin : AdminAddrs, owner : Owners, mint : Mints,
          amount : {1}, token_seed : {<<>>} \cup {<<t>> : t \in TokenSeeds}]
\* the transactions of the requests: those of the actions, and those with a
\* charge and another instruction before the deposit, in either order
\* the first account of a charge: the derived commission-admin address, or
\* the bridge admin where the derivation gives none
charge_account(a, p) ==
    IF commission_address(a, p).err = "Ok" THEN commission_address(a, p).val ELSE a
Charge(a, token, amount, p) ==
    Instruction(p, <<charge_account(a, p)>>, ChargeCommission(token, amount))
NoCharge(a, p) == Instruction(p, <<charge_account(a, p)>>, OtherCommissionInstruction)
DepositTransactions(a, token, amount) ==
    Transactions(a, token, amount)
    \cup {[before |-> <<Charge(a, token, amount, p), NoCharge(a, p)>>,
           overflow_checks |-> TRUE] : p \in CommissionPrograms}
    \cup {[before |-> <<NoCharge(a, p), Charge(a, token, amount, p)>>,
           overflow_checks |-> TRUE] : p \in CommissionPrograms}
charged_amount(r) == IF r.op = "DepositNFT" THEN 1 ELSE r.amount
DepositResult(r, tx) ==
    IF r.op = "DepositNative"
    THEN process_deposit_native_result(r.admin, r.owner, tx, seeds_of(r.admin), r.amount)
    ELSE IF r.op = "DepositFT"
    THEN process_deposit_ft_run(r.admin, r.mint,
             get_associated_token_address(r.owner, r.mint),
             get_associated_token_address(r.admin, r.mint), tx, seeds_of(r.admin),
             r.amount, r.token_seed).res
    ELSE process_deposit_nft_run(r.admin, r.mint,
             get_associated_token_address(r.owner, r.mint),
             get_associated_token_address(r.admin, r.mint), tx, seeds_of(r.admin),
             r.token_seed).res

\* the instruction right before the deposit calls the commission program of
\* the AdminRecord, its first account is the commission-admin address derived
\* for the bridge admin and its payload is ChargeCommission(token, amount)
MatchingCharge(tx, a, token, amount) ==
    /\ Len(tx.before) >= 1
    /\ LET prev == tx.before[Len(tx.before)]
       IN /\ prev.program_id = admin[a].commission_program
          /\ Len(prev.accounts) >= 1
          /\ commission_address(a, admin[a].commission_program).err = "Ok"
          /\ prev.accounts[1] = commission_address(a, admin[a].commission_program).val
          /\ prev.data = ChargeCommission(token, amount)

\* C10: a deposit request returns Ok, and so moves value, only if the
\* instruction right before it is the matching charge of its own token kind
\* and amount (1 for an NFT); with such a charge the commission check passes
C10_DepositNeedsCharge ==
    /\ \A r \in DepositRequests :
          \A tx \in DepositTransactions(r.admin, deposit_kind(r.op), charged_amount(r)) :
              LET matching == MatchingCharge(tx, r.admin, deposit_kind(r.op),
                                             charged_amount(r))
              IN /\ DepositResult(r, tx) = "Ok" => matching
                 /\ matching /\ admin[r.admin].is_initialized =>
                       verify_commission_charged(r.admin, tx, admin[r.admin],
                           deposit_kind(r.op), charged_amount(r)) = "Ok"
    /\ last.op \in DepositOps =>
          MatchingCharge(last.tx, last.admin, deposit_kind(last.op), last.amount)

\* a token deposit has succeeded on a bridge that also took a native
\* deposit, and the same deposit without its charge is refused
C10_Witness ==
    /\ last.op \in {"DepositFT", "DepositNFT"}
    /\ lamports[last.admin] > 0
    /\ MatchingCharge(last.tx, last.admin, deposit_kind(last.op), last.amount)
    /\ \E r \in DepositRequests :
          /\ r.op = "DepositNative" /\ r.admin = last.admin
          /\ DepositResult(r, [before |-> <<>>, overflow_checks |-> FALSE]) = "InvalidArgument"

\* ------------------------------------------------ commission check requests
\* the instruction right before a deposit of (token, amount) under the
\* initialized BridgeAdmin a, for every transaction a depositor can build
\* that has such an instruction
preceding(tx) == tx.before[Len(tx.before)]
ChargedDeposits ==
    UNION {{[admin |-> a, token |-> t, amount |-> n, tx |-> tx] :
               tx \in {x \in DepositTransactions(a, t, n) : Len(x.before) >= 1}} :
           a \in InitializedAdmins, t \in TokenTypes, n \in Amounts}
CommissionResult(d) ==
    verify_commission_charged(d.admin, d.tx, admin[d.admin], d.token, d.amount)
WrongProgram(d) == preceding(d.tx).program_id # admin[d.admin].commission_program
derived_commission(d) == commission_address(d.admin, admin[d.admin].commission_program)
WrongAccount(d) ==
    /\ Len(preceding(d.tx).accounts) >= 1
    /\ \/ derived_commission(d).err # "Ok"
       \/ preceding(d.tx).accounts[1] # derived_commission(d).val
RightAccount(d) ==
    /\ Len(preceding(d.tx).accounts) >= 1
    /\ derived_commission(d).err = "Ok"
    /\ preceding(d.tx).accounts[1] = derived_commission(d).val
WrongArguments(d) == preceding(d.tx).data # ChargeCommission(d.token, d.amount)

\* C11 (as stated): the commission check reports WrongCommissionProgram when
\* the preceding instruction's program is not the stored commission program;
\* else WrongCommissionAccount when its first account is not the derived
\* commission-admin address; else WrongCommissionArguments when its payload
\* is not ChargeCommission of the deposit's token kind and amount
C11_CommissionErrorOrder ==
    \A d \in ChargedDeposits :
        /\ WrongProgram(d) => CommissionResult(d) = "WrongCommissionProgram"
        /\ ~WrongProgram(d) /\ WrongAccount(d)
              => CommissionResult(d) = "WrongCommissionAccount"
        /\ ~WrongProgram(d) /\ RightAccount(d) /\ WrongArguments(d)
              => CommissionResult(d) = "WrongCommissionArguments"

\* the errors of the AuthError class
AuthErrors ==
    {"InvalidSignature", "WrongSignature", "WrongCommissionProgram",
     "WrongCommissionAccount", "WrongCommissionArguments"}
\* the transaction whose first instruction is the deposit, as either build
\* of the program sees it
FirstInstruction == {[before |-> <<>>, overflow_checks |-> oc] : oc \in BOOLEAN}

\* C12 (as stated): a deposit that is the first instruction of its
\* transaction (current index 0) under an initialized AdminRecord fails with
\* an error of the AuthError class
C12_FirstInstructionAuthError ==
    \A r \in DepositRequests : admin[r.admin].is_initialized =>
        \A tx \in FirstInstruction : DepositResult(r, tx) \in AuthErrors

\* ------------------------------------------------------------ merkle paths
\* withdrawal requests with an empty merkle path, at the derived withdraw
\* account, with every kind of signature a caller can submit: among them
\* the stored key's signature over the leaf hash itself
EmptyPathNativeRequests ==
    [admin : AdminAddrs, owner : Owners, amount : Amounts, path : {<<>>},
     sig : SigChoices]
EmptyPathTokenRequests ==
    [admin : AdminAddrs, mint : Mints, owner : Owners, amount : Amounts, path : {<<>>},
     sig : {[signer |-> k, over |-> "leaf", reid |-> 0] : k \in PubKeys},
     token_seed : {<<>>} \cup {<<t>> : t \in TokenSeeds},
     signed_meta : {<<m>> : m \in SignedMetas}]
RequestLeaves ==
    {native_leaf(o, w, a) : o \in Origins, w \in Owners, a \in Amounts}
    \cup {ft_leaf(o, w, m, a, Meta1) : o \in Origins, w \in Owners, m \in Mints, a \in Amounts}
    \cup {nft_leaf(o, w, m, Meta1) : o \in Origins, w \in Owners, m \in Mints}

\* C13: get_merkle_root rejects the empty path for every leaf with
\* WrongMerklePath, and no withdrawal request with an empty path returns Ok:
\* under an initialized AdminRecord it returns WrongMerklePath, also when
\* its signature is the stored key's over the leaf hash itself
C13_EmptyPathRejected ==
    /\ \A leaf \in RequestLeaves : get_merkle_root(leaf, <<>>).err = "WrongMerklePath"
    /\ \A o \in Origins :
          /\ \A r \in EmptyPathNativeRequests :
                LET res == NativeResult(AtDerived(r, o), o)
                IN /\ res # "Ok"
                   /\ admin[r.admin].is_initialized => res = "WrongMerklePath"
          /\ \A r \in EmptyPathTokenRequests :
                LET ft == FTResult(AtDerived(r, o), o)
                    nft == NFTResult(AtDerived(r, o), o)
                IN /\ ft # "Ok" /\ nft # "Ok"
                   /\ admin[r.admin].is_initialized /\ ResolvableMint(r)
                         => ft = "WrongMerklePath" /\ nft = "WrongMerklePath"

\* the bridge can pay a native withdrawal of an origin not yet withdrawn: the
\* request signed by the stored key over the root of a one-sibling path would
\* be accepted, and the one with an empty path and the stored key's
\* signature over the leaf itself is refused
C13_Witness ==
    \E o \in Origins, r \in EmptyPathNativeRequests :
        /\ admin[r.admin].is_initialized
        /\ r.sig = [signer |-> admin[r.admin].public_key, over |-> "leaf", reid |-> 0]
        /\ NativeResult(AtDerived(r, o), o) = "WrongMerklePath"
        /\ NativeResult(AtDerived([r EXCEPT !.path = <<Raw(1)>>, !.sig.over = "root"], o), o)
               = "Ok"

\* ------------------------------------------------------- the sorted-pair fold
\* the larger and the smaller of two 32-byte values as big-endian integers
HashMax(a, b) == IF HashCmp(a, b) >= 0 THEN a ELSE b
HashMin(a, b) == IF HashCmp(a, b) >= 0 THEN b ELSE a
\* one step of the fold: h' = H(max(h, s) || min(h, s))
sorted_pair(h, sibling) == keccak(<<HashMax(h, sibling), HashMin(h, sibling)>>)
\* the left fold of the step over the siblings in path order
RECURSIVE sorted_fold(_, _)
sorted_fold(h, path) ==
    IF path = <<>> THEN h ELSE sorted_fold(sorted_pair(h, Head(path)), Tail(path))

\* siblings: raw words, which are below every leaf, the leaves of the
\* requests, and the leaf of an origin that no request withdraws; the
\* digests of the leaves lie on either side of one another
TopLeaf == content_hash(MaxOrigin + 1, 1, PROGRAM_ID, get_operation(new_native_transfer(1)))
Siblings == {Raw(n) : n \in 1..MaxPathLen} \cup {OtherLeaf, TopLeaf} \cup RequestLeaves
FoldPaths ==
    {<<a>> : a \in Siblings} \cup {<<a, b>> : a \in Siblings, b \in {Raw(1), OtherLeaf, TopLeaf}}

\* get_merkle_root agrees with the fold on every leaf and non-empty path (a
\* fact of the function alone, evaluated before the first request)
FoldAgrees ==
    nreq = 0 =>
        \A leaf \in RequestLeaves, path \in FoldPaths :
            get_merkle_root(leaf, path) = [err |-> "Ok", val |-> sorted_fold(leaf, path)]

\* native withdrawal requests signed over a candidate root of their leaf
\* and path: the sorted fold, or the fold with the sibling always second
RootKinds == {"sorted", "in_path_order"}
candidate_root(kind, leaf, path) ==
    IF kind = "sorted" THEN sorted_fold(leaf, path)
    ELSE merkle_fold_in_path_order(leaf, path, 1)
FoldRequests ==
    [admin : AdminAddrs, owner : Owners, amount : Amounts, signer : PubKeys,
     path : {<<Raw(1)>>, <<TopLeaf>>, <<OtherLeaf, TopLeaf>>}, root : RootKinds]
FoldResult(r, origin) ==
    process_withdraw_native_result(r.admin, r.owner, find_program_address(origin),
        seeds_of(r.admin),
        Sign(r.signer, candidate_root(r.root, native_leaf(origin, r.owner, r.amount), r.path)),
        0, r.path, origin, r.amount)

\* C14: for a non-empty path the root get_merkle_root computes is the left
\* fold, from the leaf hash and in path order, of h' = H(max(h, s) || min(h, s));
\* a withdrawal is accepted only if the signed message is that fold, and the
\* stored key's signature over that fold is accepted when the bridge can pay
C14_RootIsSortedFold ==
    /\ FoldAgrees
    /\ \A o \in Origins, r \in FoldRequests :
          LET leaf == native_leaf(o, r.owner, r.amount)
              res == FoldResult(r, o)
          IN /\ res = "Ok" => candidate_root(r.root, leaf, r.path) = sorted_fold(leaf, r.path)
             /\ /\ admin[r.admin].is_initialized
                /\ r.signer = admin[r.admin].public_key
                /\ r.root = "sorted"
                /\ lamports[r.admin] >= r.amount
                /\ ~in_use(withdraws, mints, find_program_address(o))
                => res = "Ok"

\* the bridge can pay a withdrawal along two leaf siblings, one of them not
\* below the running hash: the stored key's signature over the sorted fold
\* is accepted and its signature over the fold in path order, a different
\* value, is refused
C14_Witness ==
    \E o \in Origins, r \in FoldRequests :
        /\ r.path = <<OtherLeaf, TopLeaf>> /\ r.root = "sorted"
        /\ FoldResult(r, o) = "Ok"
        /\ FoldResult([r EXCEPT !.root = "in_path_order"], o) = "WrongSignature"

\* the root of a two-leaf tree is the same from either leaf (a fact of the
\* function alone, evaluated before the first request)
PairSymmetric ==
    nreq = 0 =>
        \A a, b \in Siblings : get_merkle_root(a, <<b>>) = get_merkle_root(b, <<a>>)

\* a native transfer of a two-leaf tree
Transfers == [origin : Origins, owner : Owners, amount : Amounts]
transfer_leaf(t) == native_leaf(t.origin, t.owner, t.amount)
\* the withdrawal of transfer t under BridgeAdmin a, along the path that
\* holds the leaf of transfer u, with key k's signature over the root
\* computed from u's side of the tree
SiblingResult(a, k, t, u) ==
    process_withdraw_native_result(a, t.owner, find_program_address(t.origin), seeds_of(a),
        Sign(k, get_merkle_root(transfer_leaf(u), <<transfer_leaf(t)>>).val),
        0, <<transfer_leaf(u)>>, t.origin, t.amount)
CanPay(a, t) ==
    /\ admin[a].is_initialized
    /\ lamports[a] >= t.amount
    /\ ~in_use(withdraws, mints, find_program_address(t.origin))

\* C15: the root of leaf a with path [b] equals the root of leaf b with path
\* [a] for all 32-byte values a and b, equal ones included; so the stored
\* key's signature over the root computed from one leaf of a two-leaf tree
\* is accepted for the withdrawal of the other leaf
C15_SortedPairSymmetric ==
    /\ PairSymmetric
    /\ \A a \in AdminAddrs, t, u \in Transfers :
          CanPay(a, t) => SiblingResult(a, admin[a].public_key, t, u) = "Ok"

\* the bridge can pay two different transfers, one with the larger leaf and
\* one with the smaller: each is accepted along the other's leaf with the
\* signature over the root computed from the other side
C15_Witness ==
    \E a \in AdminAddrs, t, u \in Transfers :
        /\ t.origin # u.origin
        /\ CanPay(a, t) /\ CanPay(a, u)
        /\ HashCmp(transfer_leaf(t), transfer_leaf(u)) > 0
        /\ SiblingResult(a, admin[a].public_key, t, u) = "Ok"
        /\ SiblingResult(a, admin[a].public_key, u, t) = "Ok"

\* ------------------------------------------------------------- signatures
\* the calls of verify_ecdsa_signature: the messages the handlers verify
\* (hashes of proposed keys, merkle roots), the signatures a caller can
\* submit over them, every recovery id, every expected key
VerifiedMessages ==
    {keccak(key_bytes(n)) : n \in PubKeys}
    \cup {get_merkle_root(leaf, <<Raw(1)>>).val : leaf \in RequestLeaves}
SubmittedSigs == {BadSig} \cup {Sign(k, m) : k \in PubKeys, m \in VerifiedMessages}
VerifyCalls ==
    [hash : VerifiedMessages, sig : SubmittedSigs, reid : RecoveryIds \cup {2, 3},
     target_key : PubKeys]

\* the outcome of verify_ecdsa_signature is decided by the recovery alone
ThreeOutcomes ==
    \A c \in VerifyCalls :
        LET recovered == secp256k1_recover(c.hash, c.reid, c.sig)
            res == verify_ecdsa_signature(c.hash, c.sig, c.reid, c.target_key)
        IN /\ res \in {"Ok", "InvalidSignature", "WrongSignature"}
           /\ res = "InvalidSignature" <=> recovered.err # "Ok"
           /\ res = "WrongSignature" <=>
                 recovered.err = "Ok" /\ recovered.val # c.target_key
           /\ res = "Ok" <=> recovered.err = "Ok" /\ recovered.val = c.target_key

\* C16: verify_ecdsa_signature returns InvalidSignature when the recovery of
\* the public key fails, WrongSignature when the recovered key is not the
\* expected one, and Ok exactly when the recovered key is the expected one;
\* a RotateKey request on an initialized AdminRecord returns that outcome for
\* the stored key
C16_VerifyOutcomes ==
    /\ ThreeOutcomes
    /\ \A r \in RotationRequests : Derived(r) /\ admin[r.admin].is_initialized =>
          LET recovered == secp256k1_recover(keccak(key_bytes(r.new_public_key)),
                                             r.reid, r.sig)
              res == RotateRun(r).res
          IN /\ res \in {"Ok", "InvalidSignature", "WrongSignature"}
             /\ res = "InvalidSignature" <=> recovered.err # "Ok"
             /\ res = "Ok" <=>
                   recovered.err = "Ok" /\ recovered.val = admin[r.admin].public_key

\* a rotation has succeeded, and on the rotated AdminRecord the three outcomes
\* are returned: the new key's signature is accepted, the retired key's is
\* the wrong one and a signature with recovery id 4 does not recover; nor
\* does the expected key's own signature with recovery id 2 or 3
C16_Witness ==
    /\ last.op = "TransferOwnership"
    /\ last.new_public_key # last.old_public_key
    /\ \E r \in RotationRequests :
          /\ r.admin = last.admin /\ r.sig.signer = last.new_public_key
          /\ RotateRun(r).res = "Ok"
    /\ \E r \in RotationRequests :
          /\ r.admin = last.admin /\ r.sig.signer = last.old_public_key /\ r.reid = 0
          /\ r.sig.msg = keccak(key_bytes(r.new_public_key))
          /\ RotateRun(r).res = "WrongSignature"
    /\ \E r \in RotationRequests :
          /\ r.admin = last.admin /\ r.sig.signer = last.new_public_key /\ r.reid = 4
          /\ RotateRun(r).res = "InvalidSignature"
    /\ \E c \in VerifyCalls :
          /\ c.reid \in {2, 3} /\ c.sig = Sign(c.target_key, c.hash)
          /\ verify_ecdsa_signature(c.hash, c.sig, c.reid, c.target_key) = "InvalidSignature"

\* ------------------------------------------------------------ content leaf
\* the payloads of the transfers of the model
Payloads ==
    {get_operation(new_native_transfer(a)) : a \in Amounts}
    \cup {get_operation(new_ft_transfer(m, a, Meta1.name, Meta1.symbol, Meta1.uri)) :
             m \in Mints, a \in Amounts}
    \cup {get_operation(new_nft_transfer(m, <<>>, Meta1.name, Meta1.symbol, Meta1.uri)) :
             m \in Mints}
Programs == {PROGRAM_ID, PROGRAM_ID + 1}
\* "Solana" in ASCII
NetworkTag == <<83, 111, 108, 97, 110, 97>>

\* the fields of a pre-image, by position: 32 bytes of origin, the 6 bytes
\* of the network tag, 32 bytes of receiver, 32 bytes of destination
\* program, and the payload to the end
HasLayout(pre, origin, receiver, program_id, data) ==
    /\ Len(pre) = 32 + 6 + 32 + 32 + Len(data)
    /\ SubSeq(pre, 1, 32) = to_bytes(origin)
    /\ SubSeq(pre, 33, 38) = NetworkTag
    /\ SubSeq(pre, 39, 70) = to_bytes(receiver)
    /\ SubSeq(pre, 71, 102) = to_bytes(program_id)
    /\ SubSeq(pre, 103, Len(pre)) = data

LeafLayout ==
    \A o \in Origins, w \in Owners, p \in Programs, data \in Payloads :
        /\ HasLayout(content_preimage(o, w, p, data), o, w, p, data)
        /\ content_hash(o, w, p, data) = keccak(content_preimage(o, w, p, data))

\* native withdrawal requests signed over the root of a candidate leaf: the
\* content leaf, or a leaf with the fields in another order, without the
\* network tag, for another program, or with a trailing byte
LeafKinds == {"content", "receiver_first", "no_tag", "other_program", "trailing"}
candidate_leaf(kind, o, w, a) ==
    LET data == get_operation(new_native_transfer(a))
    IN IF kind = "content"
       THEN keccak(to_bytes(o) \o NetworkTag \o to_bytes(w) \o to_bytes(PROGRAM_ID) \o data)
       ELSE IF kind = "receiver_first"
       THEN keccak(to_bytes(w) \o NetworkTag \o to_bytes(o) \o to_bytes(PROGRAM_ID) \o data)
       ELSE IF kind = "no_tag"
       THEN keccak(to_bytes(o) \o to_bytes(w) \o to_bytes(PROGRAM_ID) \o data)
       ELSE IF kind = "other_program"
       THEN keccak(to_bytes(o) \o NetworkTag \o to_bytes(w) \o to_bytes(PROGRAM_ID + 1) \o data)
       ELSE keccak(to_bytes(o) \o NetworkTag \o to_bytes(w) \o to_bytes(PROGRAM_ID) \o data
                   \o <<0>>)
LeafRequests ==
    [admin : AdminAddrs, owner : Owners, amount : Amounts, signer : PubKeys,
     leaf : LeafKinds]
LeafResult(r, origin) ==
    process_withdraw_native_result(r.admin, r.owner, find_program_address(origin),
        seeds_of(r.admin),
        Sign(r.signer, get_merkle_root(candidate_leaf(r.leaf, origin, r.owner, r.amount),
                                       <<Raw(1)>>).val),
        0, <<Raw(1)>>, origin, r.amount)

\* C17: the content leaf is keccak of origin || "Solana" || receiver ||
\* destination program || payload, in this order and nothing else; a native
\* withdrawal is accepted only for a signature over the root of the leaf
\* with that pre-image, and the stored key's signature over it is accepted
\* when the bridge can pay
C17_LeafPreimage ==
    /\ LeafLayout
    /\ \A o \in Origins, r \in LeafRequests :
          LET res == LeafResult(r, o)
              leaf == candidate_leaf(r.leaf, o, r.owner, r.amount)
          IN /\ res = "Ok" =>
                   HasLayout(leaf.v, o, r.owner, PROGRAM_ID,
                             get_operation(new_native_transfer(r.amount)))
             /\ /\ r.leaf = "content"
                /\ r.signer = admin[r.admin].public_key
                /\ CanPay(r.admin, [origin |-> o, owner |-> r.owner, amount |-> r.amount])
                => res = "Ok"

\* the bridge can pay a withdrawal whose origin and receiver differ: the
\* stored key's signature over the content leaf is accepted, the ones over
\* the other candidate leaves are refused
C17_Witness ==
    \E o \in Origins, r \in LeafRequests :
        /\ r.owner # o /\ r.leaf = "content"
        /\ LeafResult(r, o) = "Ok"
        /\ \A k \in LeafKinds \ {"content"} :
              LeafResult([r EXCEPT !.leaf = k], o) = "WrongSignature"

\* ------------------------------------------------------------ payload bytes
\* byte i (1..32) of the 32-byte big-endian encoding of an amount below
\* 2^24: the amount is in the low three bytes
be32_byte(a, i) == IF i <= 29 THEN 0 ELSE (a \div (256 ^ (32 - i))) % 256
be32(a) == [i \in 1..32 |-> be32_byte(a, i)]
\* amounts around the byte boundaries
PayloadAmounts == Amounts \cup {0, 255, 256, 257, 65535, 65536, 16777215}

\* native withdrawal requests signed over the root of the leaf with a
\* candidate payload: the encoded amount alone, or 32 zero bytes in front
PayloadKinds == {"amount", "zero_asset_id"}
native_payload(kind, a) == IF kind = "amount" THEN be32(a) ELSE Zeros(32) \o be32(a)
PayloadRequests ==
    [admin : AdminAddrs, owner : Owners, amount : Amounts, signer : PubKeys,
     payload : PayloadKinds]
PayloadResult(r, origin) ==
    process_withdraw_native_result(r.admin, r.owner, find_program_address(origin),
        seeds_of(r.admin),
        Sign(r.signer,
             get_merkle_root(keccak(to_bytes(origin) \o NetworkTag \o to_bytes(r.owner)
                                        \o to_bytes(PROGRAM_ID)
                                        \o native_payload(r.payload, r.amount)),
                             <<Raw(1)>>).val),
        0, <<Raw(1)>>, origin, r.amount)

\* C18 (as stated): the payload of a Native transfer of amount a is 32 zero
\* bytes, then the 32-byte big-endian encoding of a, then the empty name,
\* symbol and uri, 64 bytes; so the leaf of a native withdrawal that is
\* accepted holds that payload
C18_NativePayload64 ==
    /\ \A a \in PayloadAmounts :
          /\ get_operation(new_native_transfer(a)) = Zeros(32) \o be32(a)
          /\ Len(get_operation(new_native_transfer(a))) = 64
    /\ \A o \in Origins, r \in PayloadRequests :
          PayloadResult(r, o) = "Ok" => r.payload = "zero_asset_id"

\* C18 (amended): the payload of a Native transfer of amount a is the
\* 32-byte big-endian encoding of a (24 zero bytes, then the 8 big-endian
\* bytes of the u64) and nothing else, 32 bytes: an absent asset id
\* contributes no bytes; a native withdrawal is accepted for the stored
\* key's signature over the leaf with that payload and refused for the leaf
\* with 32 zero bytes in front of the amount
C18_NativePayload32 ==
    /\ \A a \in PayloadAmounts :
          /\ get_operation(new_native_transfer(a)) = be32(a)
          /\ Len(get_operation(new_native_transfer(a))) = 32
          /\ amount_bytes(a) = Zeros(24) \o to_be_bytes(a)
    /\ \A o \in Origins, r \in PayloadRequests :
          LET res == PayloadResult(r, o)
          IN /\ res = "Ok" => r.payload = "amount"
             /\ /\ r.payload = "amount"
                /\ r.signer = admin[r.admin].public_key
                /\ CanPay(r.admin, [origin |-> o, owner |-> r.owner, amount |-> r.amount])
                => res = "Ok"

\* the bridge can pay a native withdrawal: the stored key's signature over
\* the leaf with the 32-byte payload is accepted, the one over the leaf with
\* the 64-byte payload is refused
C18_Witness ==
    \E o \in Origins, r \in PayloadRequests :
        /\ r.payload = "amount"
        /\ PayloadResult(r, o) = "Ok"
        /\ PayloadResult([r EXCEPT !.payload = "zero_asset_id"], o) = "WrongSignature"

\* the NFT transfers of the payload claims: a mint, a collection or none,
\* and strings of several lengths, the empty one included
Meta2 == [name |-> <<78, 70>>, symbol |-> <<>>, uri |-> <<85, 82>>, decimals |-> 0]
PayloadMetas == {Meta1, Meta2}
Collections == {<<>>} \cup {<<find_program_address(t)>> : t \in 1..(MaxTokenSeed + 1)}
NFTTransfers == [mint : Mints, collection : Collections, meta : PayloadMetas]
nft_operation(t) ==
    get_operation(new_nft_transfer(t.mint, t.collection, t.meta.name, t.meta.symbol,
                                   t.meta.uri))
\* mint, then collection-or-zero, then the amount 1, then the strings
mint_first_payload(t) ==
    to_bytes(t.mint)
        \o (IF t.collection = <<>> THEN Zeros(32) ELSE to_bytes(t.collection[1]))
        \o be32(1) \o t.meta.name \o t.meta.symbol \o t.meta.uri
\* collection when there is one, then mint, then the amount 1, then the
\* strings
collection_first_payload(t) ==
    (IF t.collection = <<>> THEN <<>> ELSE to_bytes(t.collection[1]))
        \o to_bytes(t.mint) \o be32(1) \o t.meta.name \o t.meta.symbol \o t.meta.uri

\* NFT withdrawal requests of a token without collection, minted from its
\* seed with the signed metadata, signed over the root of the leaf with a
\* candidate payload
NFTPayloadKinds == {"collection_first", "mint_first"}
nft_candidate_payload(kind, t) ==
    IF kind = "collection_first" THEN collection_first_payload(t) ELSE mint_first_payload(t)
NFTPayloadRequests ==
    [admin : AdminAddrs, mint : Mints, owner : Owners, signer : PubKeys,
     payload : NFTPayloadKinds]
NFTPayloadResult(r, origin) ==
    process_withdraw_nft_run(r.admin, r.mint, find_metadata_pda(r.mint), r.owner,
        get_associated_token_address(r.owner, r.mint),
        get_associated_token_address(r.admin, r.mint), find_program_address(origin),
        find_metadata_pda(r.mint), seeds_of(r.admin),
        Sign(r.signer,
             get_merkle_root(keccak(to_bytes(origin) \o NetworkTag \o to_bytes(r.owner)
                 \o to_bytes(PROGRAM_ID)
                 \o nft_candidate_payload(r.payload,
                        [mint |-> r.mint, collection |-> <<>>, meta |-> Meta1])),
                 <<Raw(1)>>).val),
        0, <<Raw(1)>>, origin, <<token_seed_of(r.mint)>>, <<Meta1>>).res

\* C19 (as stated): the payload of a NonFungibleTransfer is the 32-byte mint,
\* then the 32-byte collection (32 zero bytes when absent), then the 32-byte
\* big-endian amount 1, then name, symbol, uri; so the leaf of an NFT
\* withdrawal that is accepted holds that payload
C19_NFTPayloadMintFirst ==
    /\ \A t \in NFTTransfers : nft_operation(t) = mint_first_payload(t)
    /\ \A o \in Origins, r \in NFTPayloadRequests :
          NFTPayloadResult(r, o) = "Ok" => r.payload = "mint_first"

\* C19 (amended): the payload of a NonFungibleTransfer is the 32-byte
\* collection when there is one (no bytes when it is absent), then the
\* 32-byte mint, then the 32-byte big-endian amount 1, then name, symbol,
\* uri; an NFT withdrawal is accepted only for a signature over the leaf
\* with that payload
C19_NFTPayloadCollectionFirst ==
    /\ \A t \in NFTTransfers :
          /\ nft_operation(t) = collection_first_payload(t)
          /\ new_nft_transfer(t.mint, t.collection, t.meta.name, t.meta.symbol,
                              t.meta.uri).amount = 1
    /\ \A o \in Origins, r \in NFTPayloadRequests :
          NFTPayloadResult(r, o) = "Ok" => r.payload = "collection_first"

\* an NFT withdrawal is accepted for the stored key's signature over the leaf
\* whose payload starts with the mint and holds no collection bytes, and
\* refused for the leaf with the zeroed collection behind the mint
C19_Witness ==
    \E o \in Origins, r \in NFTPayloadRequests :
        /\ r.payload = "collection_first"
        /\ r.signer = admin[r.admin].public_key
        /\ NFTPayloadResult(r, o) = "Ok"
        /\ NFTPayloadResult([r EXCEPT !.payload = "mint_first"], o) = "WrongSignature"

\* -------------------------------------------------------- logical transfers
\* metadata whose names differ and whose name || symbol is the same string
MetaA == [name |-> <<65>>, symbol |-> <<66, 67>>, uri |-> <<85>>, decimals |-> 0]
MetaB == [name |-> <<65, 66>>, symbol |-> <<67>>, uri |-> <<85>>, decimals |-> 0]
TransferMetas == {Meta1, MetaA, MetaB}
NoMeta == [name |-> <<>>, symbol |-> <<>>, uri |-> <<>>, decimals |-> 0]
\* a logical transfer: its kind, origin, receiver, destination program, mint
\* (none for a native one), amount and strings
LogicalTransfers ==
    [kind : {"Native"}, origin : Origins, receiver : Owners, program : {PROGRAM_ID},
     mint : {<<>>}, amount : Amounts, meta : {NoMeta}]
    \cup [kind : {"FT"}, origin : Origins, receiver : Owners, program : {PROGRAM_ID},
          mint : {<<m>> : m \in Mints}, amount : Amounts, meta : TransferMetas]
    \cup [kind : {"NFT"}, origin : Origins, receiver : Owners, program : {PROGRAM_ID},
          mint : {<<m>> : m \in Mints}, amount : {1}, meta : TransferMetas]
transfer_operation(t) ==
    IF t.kind = "Native" THEN new_native_transfer(t.amount)
    ELSE IF t.kind = "FT"
    THEN new_ft_transfer(t.mint[1], t.amount, t.meta.name, t.meta.symbol, t.meta.uri)
    ELSE new_nft_transfer(t.mint[1], <<>>, t.meta.name, t.meta.symbol, t.meta.uri)
transfer_preimage(t) ==
    content_preimage(t.origin, t.receiver, t.program, get_operation(transfer_operation(t)))
\* the transfers the claim tells apart
Distinguished(t, u) ==
    /\ t # u
    /\ <<t.mint, t.amount>> # <<u.mint, u.amount>> \/ t.meta.name # u.meta.name

\* the FT withdrawal of transfer t, whose token is minted from its seed with
\* the metadata of t, carrying key k's signature over the root of the leaf
\* of transfer u
CrossResult(a, k, t, u) ==
    process_withdraw_ft_run(a, t.mint[1], find_metadata_pda(t.mint[1]), t.receiver,
        get_associated_token_address(t.receiver, t.mint[1]),
        get_associated_token_address(a, t.mint[1]), find_program_address(t.origin),
        seeds_of(a),
        Sign(k, get_merkle_root(keccak(transfer_preimage(u)), <<Raw(1)>>).val),
        0, <<Raw(1)>>, t.origin, t.amount, <<token_seed_of(t.mint[1])>>, <<t.meta>>).res

\* C20 (as stated): two distinct logical transfers whose (mint, amount)
\* pairs differ or whose names differ have different leaf pre-images; so a
\* signature over the leaf of one of them never authorizes the withdrawal of
\* the other
C20_DistinctLeaves ==
    /\ \A t, u \in LogicalTransfers :
          Distinguished(t, u) => transfer_preimage(t) # transfer_preimage(u)
    /\ \A a \in AdminAddrs, t, u \in {x \in LogicalTransfers : x.kind = "FT"} :
          Distinguished(t, u) => CrossResult(a, admin[a].public_key, t, u) # "Ok"

\* ---------------------------------------------------- order of the steps
steps_of(op) ==
    IF op = "WithdrawNative" THEN process_withdraw_native_steps
    ELSE IF op = "WithdrawFT" THEN process_withdraw_ft_steps
    ELSE process_withdraw_nft_steps
\* the order of the control flow of a withdrawal
WithdrawalOrder == <<"leaf", "root", "verify", "create", "transfer", "persist">>

\* token withdrawal requests with a one-sibling path and the stored key's
\* signature over the root, for a mint that exists, at any withdraw account
OrderRequests ==
    [admin : AdminAddrs, mint : Mints, owner : Owners, withdraw : WithdrawAddrs,
     amount : Amounts]
Ordered(r) ==
    r @@ [path |-> <<Raw(1)>>, token_seed |-> <<>>, signed_meta |-> <<Meta1>>,
          sig |-> [signer |-> admin[r.admin].public_key, over |-> "root", reid |-> 0]]
\* the record of the origin cannot be created: the account is not the
\* derived one, or it is occupied
RecordBlocked(r, origin) ==
    r.withdraw # find_program_address(origin) \/ withdraws[r.withdraw].exists
\* the errors of the value transfer (spl_token mint_to by another authority)
TransferErrors == {"OwnerMismatch"}

\* C21 (as stated): every withdrawal that succeeds has run leaf, root,
\* signature check, creation of the per-origin record, value transfer and
\* persisting of the record in this order; the value transfer is never
\* invoked before the record has been created, so a request whose record
\* cannot be created never returns an error of the value transfer
C21_RecordBeforeTransfer ==
    /\ last.op \in WithdrawOps => steps_of(last.op) = WithdrawalOrder
    /\ \A o \in Origins, r \in OrderRequests :
          RecordBlocked(r, o) =>
              /\ FTResult(Ordered(r), o) \notin TransferErrors
              /\ NFTResult(Ordered(r), o) \notin TransferErrors

\* ------------------------------------------------- transfer and record
\* the balance of a token account (an account not yet created holds nothing)
Balance(tk, account) == IF tk[account] < 0 THEN 0 ELSE tk[account]
\* the withdraw records a step initializes
NewRecords ==
    {w \in WithdrawAddrs : withdraws'[w].is_initialized /\ ~withdraws[w].is_initialized}
\* what a step pays out to a receiver: lamports, and tokens of a mint
LamportGain(h) == lamports'[h] - lamports[h]
TokenGain(h, m) ==
    Balance(tokens', get_associated_token_address(h, m))
        - Balance(tokens, get_associated_token_address(h, m))
\* the receivers a step pays
Paid == {h \in Owners : LamportGain(h) > 0 \/ \E m \in Mints : TokenGain(h, m) > 0}
\* the step pays exactly what the record says, to its receiver, out of the
\* bridge
PaysRecord(rec) ==
    /\ Paid = {rec.receiver_address}
    /\ rec.token_type = "Native" =>
          /\ LamportGain(rec.receiver_address) = rec.amount
          /\ \E a \in AdminAddrs : LamportGain(a) = 0 - rec.amount
          /\ tokens' = tokens
    /\ rec.token_type \in {"FT", "NFT"} =>
          /\ TokenGain(rec.receiver_address, rec.mint[1]) = rec.amount
          /\ lamports' = lamports
TransferWithRecord ==
    /\ Cardinality(NewRecords) <= 1
    /\ NewRecords # {} <=> Paid # {}
    /\ \A w \in NewRecords :
          /\ w = find_program_address(withdraws'[w].origin)
          /\ paid'[withdraws'[w].origin] = paid[withdraws'[w].origin] + 1
          /\ PaysRecord(withdraws'[w])
RecordIffPaidOnce ==
    \A o \in Origins :
        /\ withdraws[find_program_address(o)].is_initialized <=> paid[o] = 1
        /\ ~withdraws[find_program_address(o)].is_initialized <=> paid[o] = 0

\* C22: in every reachable state the WithdrawRecord of an origin is
\* initialized if and only if exactly one withdrawal of that origin has paid
\* out; every step either pays a receiver and initializes the record of the
\* origin with the paid amount and receiver, or does neither
C22_TransferIffRecord == [](RecordIffPaidOnce) /\ [][TransferWithRecord]_vars

\* one origin has been paid out in tokens and holds its record, the other
\* has neither
C22_Witness ==
    /\ last.op = "WithdrawFT"
    /\ withdraws[find_program_address(last.origin)].is_initialized
    /\ tokens[get_associated_token_address(last.owner,
                  withdraws[find_program_address(last.origin)].mint[1])] >= last.amount
    /\ \E o \in Origins :
          paid[o] = 0 /\ ~in_use(withdraws, mints, find_program_address(o))

\* ------------------------------------------------- errors write nothing
\* the three withdrawals of a request, statement by statement
NativeWritten(r, origin) ==
    process_withdraw_native_written(r.admin, r.owner, r.withdraw, seeds_of(r.admin),
        MakeSig(r.sig, native_leaf(origin, r.owner, r.amount), r.path),
        r.sig.reid, r.path, origin, r.amount)
FTWritten(r, origin) ==
    process_withdraw_ft_written(r.admin, r.mint, find_metadata_pda(r.mint), r.owner,
        get_associated_token_address(r.owner, r.mint),
        get_associated_token_address(r.admin, r.mint), r.withdraw, seeds_of(r.admin),
        MakeSig(r.sig, ft_leaf(origin, r.owner, r.mint, r.amount, Meta1), r.path),
        r.sig.reid, r.path, origin, r.amount, r.token_seed, r.signed_meta)
NFTWritten(r, origin) ==
    process_withdraw_nft_written(r.admin, r.mint, find_metadata_pda(r.mint), r.owner,
        get_associated_token_address(r.owner, r.mint),
        get_associated_token_address(r.admin, r.mint), r.withdraw,
        find_metadata_pda(r.mint), seeds_of(r.admin),
        MakeSig(r.sig, nft_leaf(origin, r.owner, r.mint, Meta1), r.path),
        r.sig.reid, r.path, origin, r.token_seed, r.signed_meta)
FTRun(r, origin) ==
    process_withdraw_ft_run(r.admin, r.mint, find_metadata_pda(r.mint), r.owner,
        get_associated_token_address(r.owner, r.mint),
        get_associated_token_address(r.admin, r.mint), r.withdraw, seeds_of(r.admin),
        MakeSig(r.sig, ft_leaf(origin, r.owner, r.mint, r.amount, Meta1), r.path),
        r.sig.reid, r.path, origin, r.amount, r.token_seed, r.signed_meta)
NFTRun(r, origin) ==
    process_withdraw_nft_run(r.admin, r.mint, find_metadata_pda(r.mint), r.owner,
        get_associated_token_address(r.owner, r.mint),
        get_associated_token_address(r.admin, r.mint), r.withdraw,
        find_metadata_pda(r.mint), seeds_of(r.admin),
        MakeSig(r.sig, nft_leaf(origin, r.owner, r.mint, Meta1), r.path),
        r.sig.reid, r.path, origin, r.token_seed, r.signed_meta)

\* the accounts a withdrawal can write, as they are persisted
NativeAccounts == [lamports |-> lamports, withdraws |-> withdraws]
TokenAccounts == [mints |-> mints, metadatas |-> metadatas, tokens |-> tokens,
                  withdraws |-> withdraws]
accounts_of(run) == [f \in DOMAIN run \ {"res"} |-> run[f]]

\* what the platform persists of a request
Persisted(written, before) ==
    atomic_unit(written.res, before, accounts_of(written))

\* the requests checked: any BridgeAdmin account, mint, receiver, withdraw
\* account, signer and token seed, for the largest amount along a path
AtomicNativeRequests ==
    [admin : AdminAddrs, owner : Owners, withdraw : WithdrawAddrs,
     amount : {MaxAmount}, path : TokenPaths, sig : TokenSigChoices]
AtomicTokenRequests ==
    [admin : AdminAddrs, mint : Mints, owner : Owners,
     withdraw : WithdrawAddrs, amount : {MaxAmount}, path : {<<Raw(1)>>},
     sig : TokenSigChoices, token_seed : {<<>>} \cup {<<t>> : t \in TokenSeeds},
     signed_meta : {<<m>> : m \in SignedMetas}]

\* the origins checked below: the withdraw account of origin 1 is the
\* address of the mint of token seed 1, that of origin 2 is no mint's
AtomicOrigins == {1, 2}
AtomicWithdrawAddrs == {find_program_address(o) : o \in AtomicOrigins}
UnitNativeRequests == {r \in AtomicNativeRequests : r.withdraw \in AtomicWithdrawAddrs}
UnitTokenRequests == {r \in AtomicTokenRequests : r.withdraw \in AtomicWithdrawAddrs}

InitLoses(a) ==
    \A r \in InitRequests :
        r.admin = a /\ InitResult(r) = "Ok" => InitResult(r)' # "Ok"
RotationLoses(a) ==
    \A r \in RotationRequests :
        r.admin = a /\ RotateRun(r).res = "Ok" => RotateRun(r).res' # "Ok"
WithdrawalLoses(o) ==
    /\ \A r \in AtomicNativeRequests :
          NativeResult(r, o) = "Ok" => NativeResult(r, o)' # "Ok"
    /\ \A r \in AtomicTokenRequests :
          /\ FTResult(r, o) = "Ok" => FTResult(r, o)' # "Ok"
          /\ NFTResult(r, o) = "Ok" => NFTResult(r, o)' # "Ok"
InitAndWithdrawalWinner ==
    /\ last'.op = "InitializeAdmin" =>
           \A a \in AdminAddrs : a = last'.admin => InitLoses(a)
    /\ last'.op \in WithdrawOps =>
           \A o \in Origins : o = last'.origin => WithdrawalLoses(o)
RotationWinner ==
    last'.op = "TransferOwnership" =>
        \A a \in AdminAddrs : a = last'.admin => RotationLoses(a)

\* C24: of two Initialize or two RotateKey units for the same AdminRecord, or
\* two withdrawals of the same origin, that would each succeed on the
\* accounts they were submitted against, the one the platform runs second
\* does not succeed, whichever of them runs first
C24_OneWinner == [][InitAndWithdrawalWinner /\ RotationWinner]_vars

\* ------------------------------------------------- records are immutable
\* no request that succeeds changes a field of a record that exists
RecordsKept ==
    \A w \in WithdrawAddrs : withdraws[w].is_initialized => withdraws'[w] = withdraws[w]
\* no withdrawal that names the account of a record as its withdraw account
\* gets to write it, whatever its origin and other parameters
NoRewrite ==
    \A o \in Origins :
        /\ \A r \in AtomicNativeRequests :
              withdraws[r.withdraw].is_initialized => NativeResult(r, o) # "Ok"
        /\ \A r \in AtomicTokenRequests :
              withdraws[r.withdraw].is_initialized =>
                  /\ FTResult(r, o) # "Ok"
                  /\ NFTResult(r, o) # "Ok"

\* C25: once created, a WithdrawRecord keeps its tokenKind, origin, mint,
\* amount, receiver and initialized flag through every later request
\* (withdrawals of the same or another origin, deposits, RotateKey,
\* Initialize, MintCollection)
C25_RecordImmutable == [](NoRewrite) /\ [][RecordsKept]_vars

\* a record exists, and the last request, which came after its withdrawal,
\* was a rotation, a deposit or a withdrawal of another origin
C25_Witness ==
    \E w \in Withdrawn :
        /\ \/ last.op \in {"TransferOwnership", "DepositNative"}
           \/ last.op \in WithdrawOps /\ last.origin # withdraws[w].origin
        /\ nreq >= 3

\* ------------------------------------------------- the persisted record
\* the record a withdrawal leaves at its withdraw account
RecordOf(request) == withdraws[request.withdraw]
\* C26: the record persisted by a successful withdrawal is initialized, holds
\* the origin of the request and the withdrawing owner as receiver, and:
\* Native: token kind Native, no mint, the requested amount; FT: token kind
\* FT, the mint account, the requested amount; NFT: token kind NFT, the mint
\* account, amount 1
C26_PersistedRecord ==
    last.op \in WithdrawOps =>
        /\ RecordOf(last).is_initialized
        /\ RecordOf(last).origin = last.origin
        /\ RecordOf(last).receiver_address = last.owner
        /\ last.op = "WithdrawNative" =>
              /\ RecordOf(last).token_type = "Native"
              /\ RecordOf(last).mint = <<>>
              /\ RecordOf(last).amount = last.amount
        /\ last.op = "WithdrawFT" =>
              /\ RecordOf(last).token_type = "FT"
              /\ RecordOf(last).mint = <<last.mint>>
              /\ RecordOf(last).amount = last.amount
        /\ last.op = "WithdrawNFT" =>
              /\ RecordOf(last).token_type = "NFT"
              /\ RecordOf(last).mint = <<last.mint>>
              /\ RecordOf(last).amount = 1

\* the last request persisted the record of an NFT, and the record of an FT
\* withdrawal of the largest amount exists
C26_Witness ==
    /\ last.op = "WithdrawNFT"
    /\ RecordOf(last).token_type = "NFT"
    /\ RecordOf(last).mint = <<last.mint>>
    /\ \E w \in Withdrawn :
          /\ withdraws[w].token_type = "FT"
          /\ withdraws[w].amount = MaxAmount

\* ------------------------------------------------- outcomes are functions
\* the requests whose outcome is followed from state to state; a deposit
\* carries the instruction before it and the build's handling of the u16
\* subtraction
OutcomeRotations ==
    {r \in RotationRequests : r.admin = AdminBase + r.seeds /\ r.reid = 0}
OutcomeInits == {r \in InitRequests : r.public_key = 1 /\ r.commission_program = 1}
OutcomeNativeRequests ==
    {r \in AtomicNativeRequests :
        r.owner = 1 /\ r.path # <<>> /\ r.withdraw = find_program_address(1)}
DepositOutcome(a, tx) == process_deposit_native_result(a, 1, tx, seeds_of(a), 1)

\* the persisted state a request reads: the accounts of its account list
\* that its handler looks at.  The account at a derived address is the
\* withdraw record or the mint there
AccountAt(address) ==
    <<IF address \in DOMAIN withdraws THEN withdraws[address] ELSE NoWithdraw,
      IF address \in DOMAIN mints THEN mints[address] ELSE NoMint>>
ReadByAdminRequest(r) == admin[r.admin]
ReadByDeposit(a) == <<admin[a], lamports[1]>>
ReadByNative(r) == <<admin[r.admin], lamports[r.admin], AccountAt(r.withdraw)>>

\* a step that leaves the accounts a request reads as they were leaves its
\* outcome as it was, whatever else the step has changed
SameAccountsSameOutcome ==
    /\ \A r \in OutcomeRotations :
          ReadByAdminRequest(r)' = ReadByAdminRequest(r) =>
              RotateRun(r).res' = RotateRun(r).res
    /\ \A r \in OutcomeInits :
          ReadByAdminRequest(r)' = ReadByAdminRequest(r) => InitResult(r)' = InitResult(r)
    /\ \A a \in AdminAddrs : \A tx \in Transactions(a, "Native", 1) :
          ReadByDeposit(a)' = ReadByDeposit(a) => DepositOutcome(a, tx)' = DepositOutcome(a, tx)
    /\ \A o \in Origins : \A r \in OutcomeNativeRequests :
          ReadByNative(r)' = ReadByNative(r) => NativeResult(r, o)' = NativeResult(r, o)

Resubmitted ==
    {r \in NativeRequests :
        /\ r.admin = last.admin /\ r.owner = last.owner /\ r.withdraw = last.withdraw
        /\ r.amount = last.amount /\ r.path # <<>>
        /\ r.sig = [signer |-> last.signer, over |-> "root", reid |-> 0]}

\* what the scenario has established when the withdrawal has succeeded: the
\* AdminRecord is initialized and its key signed the withdrawal, and the
\* WithdrawRecord of the origin exists
ScenarioWithdrawn ==
    /\ admin[last.admin].is_initialized
    /\ last.signer = admin[last.admin].public_key
    /\ last.withdraw = find_program_address(last.origin)
    /\ withdraws[last.withdraw] =
           withdraw_record("Native", last.origin, <<>>, last.amount, last.owner)

\* C28 (as stated): after Initialize, a charged native deposit of a and a
\* signed WithdrawNative of a for origin O, the identical withdrawal
\* submitted again fails with AlreadyInUse
C28_ReplayAlreadyInUse ==
    last.op = "WithdrawNative" =>
        /\ ScenarioWithdrawn
        /\ \A r \in Resubmitted : NativeResult(r, last.origin) = "AlreadyInUse"

\* C28 (amended): a native deposit succeeds behind its matching charge on an
\* initialized AdminRecord; the signed WithdrawNative creates the
\* WithdrawRecord of O; the identical withdrawal submitted again fails, with
\* AlreadyInUse if the bridge still holds the amount and with WrongBalance
\* if the withdrawal has left it less
C28_ReplayRefused ==
    /\ last.op = "DepositNative" =>
          /\ admin[last.admin].is_initialized
          /\ MatchingCharge(last.tx, last.admin, "Native", last.amount)
    /\ last.op = "WithdrawNative" =>
          /\ ScenarioWithdrawn
          /\ \A r \in Resubmitted :
                NativeResult(r, last.origin) =
                    IF lamports[last.admin] >= last.amount
                    THEN "AlreadyInUse" ELSE "WrongBalance"

\* the scenario has run with two depositors of the amount each: the bridge
\* has paid one of them back and still holds the amount, and the
\* resubmitted withdrawal returns AlreadyInUse
C28_Witness ==
    /\ last.op = "WithdrawNative"
    /\ nreq = 4
    /\ lamports[last.admin] = last.amount
    /\ \E h \in Owners :
          /\ h # last.owner
          /\ lamports[h] = InitLamports - last.amount
          /\ lamports[last.owner] = InitLamports
    /\ Resubmitted # {}
    /\ \A r \in Resubmitted : NativeResult(r, last.origin) = "AlreadyInUse"

LegacyFresh ==
    {a \in AdminAddrs :
        /\ admin[a].data_len = BRIDGE_ADMIN_SIZE
        /\ rent_is_exempt(admin[a].lamports, BRIDGE_ADMIN_SIZE)
        /\ ~admin[a].is_initialized}

\* C30: in the legacy program process_init_admin succeeds on a fresh
\* account and marks the record it writes as initialized, so that after it
\* a second process_init_admin on the account fails with AlreadyInUse and a
\* TransferOwnership signed by the admin no longer fails with NotInitialized
C30_LegacyInitMarksInitialized ==
    /\ \A a \in LegacyFresh :
          /\ legacy_process_init_admin_result(a, TRUE) = "Ok"
          /\ \A k \in PubKeys : legacy_init_admin_record(admin[a], k).is_initialized
    /\ last.op = "InitializeAdmin" /\ last.prior \in LegacyRecords
           /\ last.prior.data_len = BRIDGE_ADMIN_SIZE
           /\ rent_is_exempt(last.prior.lamports, BRIDGE_ADMIN_SIZE) =>
          /\ admin[last.account].is_initialized
          /\ legacy_process_init_admin_result(last.account, TRUE) = "AlreadyInUse"
          /\ legacy_process_transfer_ownership_result(last.account, last.admin, TRUE)
                 # "NotInitialized"

\* ------------------------------------------------ lamports of a withdrawal
\* the lamports in the accounts of the model; the ledger keeps the sum of all
\* balances (its capitalization) in a u64, so a balance that stays within
\* the supply cannot wrap the u64 it is held in
LamportSupply == MaxOwner * InitLamports

RECURSIVE SumOver(_, _)
SumOver(balances, accounts) ==
    IF accounts = {} THEN 0
    ELSE LET a == CHOOSE x \in accounts : TRUE
         IN balances[a] + SumOver(balances, accounts \ {a})

\* the request passes every check in front of the balance check
SignedByStoredKey(r) ==
    /\ admin[r.admin].is_initialized
    /\ r.path # <<>>
    /\ r.sig.signer = admin[r.admin].public_key

\* a request the bridge account cannot pay is refused with WrongBalance
UnderfundedRefused ==
    \A o \in Origins : \A r \in NativeRequests :
        LET res == NativeResult(r, o)
        IN /\ SignedByStoredKey(r) /\ lamports[r.admin] < r.amount => res = "WrongBalance"
           /\ res = "Ok" => lamports[r.admin] >= r.amount

\* no balance is negative and the balances add up to the supply
LamportsConserved ==
    /\ \A h \in Holders : lamports[h] >= 0 /\ lamports[h] <= LamportSupply
    /\ SumOver(lamports, Holders) = LamportSupply

\* a native withdrawal moves exactly its amount from the bridge account to
\* the receiver and touches no other balance
NativeMovesAmount ==
    (nreq' = nreq + 1 /\ last'.op = "WithdrawNative") =>
        LET bridge == last'.admin
            receiver == last'.owner
            amount == last'.amount
        IN /\ lamports[bridge] >= amount
           /\ lamports'[bridge] = lamports[bridge] - amount
           /\ lamports'[receiver] = lamports[receiver] + amount
           /\ lamports'[bridge] + lamports'[receiver] = lamports[bridge] + lamports[receiver]
           /\ lamports'[receiver] <= LamportSupply
           /\ \A h \in Holders \ {bridge, receiver} : lamports'[h] = lamports[h]

\* C31: WithdrawNative returns WrongBalance when the bridge account holds
\* fewer lamports than the amount; a successful one lowers the bridge balance
\* by exactly the amount and raises the receiver's by exactly the amount, so
\* that their sum is conserved, the bridge balance does not go below zero and
\* the receiver's balance stays within the supply (its u64 does not wrap)
C31_NativeBalances ==
    [](UnderfundedRefused /\ LamportsConserved) /\ [][NativeMovesAmount]_vars

\* a native withdrawal has just paid a receiver more than it started with
\* and left the bridge unable to pay the same amount again
C31_Witness ==
    /\ last.op = "WithdrawNative"
    /\ lamports[last.owner] > InitLamports
    /\ lamports[last.admin] < last.amount
    /\ \E o \in Origins, r \in NativeRequests :
          /\ r.admin = last.admin /\ r.amount = last.amount
          /\ SignedByStoredKey(r)
          /\ NativeResult(r, o) = "WrongBalance"

\* --------------------------------------------- address of a withdraw record
\* a native request whose signature is over the leaf of one origin, submitted
\* with another origin in its instruction data
SignedOriginResult(r, signed_origin, origin) ==
    process_withdraw_native_result(r.admin, r.owner, r.withdraw, seeds_of(r.admin),
        MakeSig(r.sig, native_leaf(signed_origin, r.owner, r.amount), r.path),
        r.sig.reid, r.path, origin, r.amount)

\* a request that names another account than the one derived from its origin
\* does not succeed, and it returns WrongNonce when it passes the checks in
\* front of the derivation
WrongAccountRefused ==
    \A o \in Origins :
        /\ \A r \in NativeRequests : r.withdraw # find_program_address(o) =>
              LET res == NativeResult(r, o)
              IN /\ res # "Ok"
                 /\ SignedByStoredKey(r) /\ PayableNative(r) => res = "WrongNonce"
        /\ \A r \in AtomicTokenRequests : r.withdraw # find_program_address(o) =>
              LET ft == FTResult(r, o)
                  nft == NFTResult(r, o)
              IN /\ ft # "Ok"
                 /\ nft # "Ok"
                 /\ SignedByStoredKey(r) /\ PayableFT(r) => ft = "WrongNonce"
                 /\ SignedByStoredKey(r) /\ PayableFT([r EXCEPT !.amount = 1])
                       => nft = "WrongNonce"

\* a request succeeds only at the account derived from the origin its
\* signature covers
SignedOriginDerives ==
    \A signed_origin \in Origins, o \in Origins : \A r \in AtomicNativeRequests :
        SignedOriginResult(r, signed_origin, o) = "Ok" =>
            /\ signed_origin = o
            /\ r.withdraw = find_program_address(signed_origin)

\* every withdraw account that exists holds the record of the origin its
\* address derives from, and the last withdrawal wrote there
RecordsAtDerived ==
    /\ \A w \in WithdrawAddrs : withdraws[w].exists =>
          /\ withdraws[w].is_initialized
          /\ w = find_program_address(withdraws[w].origin)
    /\ last.op \in WithdrawOps => last.withdraw = find_program_address(last.origin)

\* C32: a withdrawal whose withdraw account is not the address derived from
\* its origin fails with WrongNonce, and no WithdrawRecord is created or
\* written at an address other than the one derived from the origin hashed
\* into the signed leaf
C32_RecordAtDerivedAddress ==
    WrongAccountRefused /\ SignedOriginDerives /\ RecordsAtDerived

\* a withdrawal has created its record, and a signed, payable request for
\* another origin that names that record's account is refused with WrongNonce
C32_Witness ==
    /\ last.op \in WithdrawOps
    /\ withdraws[last.withdraw].is_initialized
    /\ \E o \in Origins \ {last.origin}, r \in NativeRequests :
          /\ r.withdraw = last.withdraw
          /\ SignedByStoredKey(r) /\ PayableNative(r)
          /\ NativeResult(r, o) = "WrongNonce"

\* ------------------------------------------------ receiver of a withdrawal
\* the accounts whose balance a step raises
Credited ==
    {h \in Holders : lamports'[h] > lamports[h]}
    \cup {t \in AssociatedAddrs : Balance(tokens', t) > Balance(tokens, t)}

\* a withdrawal credits the receiver of its request (for a token, the
\* receiver's associated account of the mint) and nobody else, and stores
\* that receiver in the record
CreditsReceiver ==
    (nreq' = nreq + 1 /\ last'.op \in WithdrawOps) =>
        /\ withdraws'[last'.withdraw].receiver_address = last'.owner
        /\ Credited = {IF last'.op = "WithdrawNative" THEN last'.owner
                       ELSE get_associated_token_address(last'.owner, last'.mint)}

\* a native request that is to pay r.owner, with a signature over the leaf
\* of signed_receiver
SignedReceiverResult(r, signed_receiver, origin) ==
    process_withdraw_native_result(r.admin, r.owner, find_program_address(origin),
        seeds_of(r.admin),
        MakeSig(r.sig, native_leaf(origin, signed_receiver, r.amount), r.path),
        r.sig.reid, r.path, origin, r.amount)

\* an FT request that is to pay into the token account r.credited on behalf
\* of r.owner, with the stored key's signature over the leaf of
\* signed_receiver
ReceiverRequests ==
    [admin : {a \in AdminAddrs : admin[a].is_initialized}, mint : Mints, owner : Owners,
     credited : AssociatedAddrs, token_seed : {<<>>} \cup {<<t>> : t \in TokenSeeds}]
SignedReceiverFT(r, signed_receiver, origin) ==
    process_withdraw_ft_run(r.admin, r.mint, find_metadata_pda(r.mint), r.owner,
        r.credited, get_associated_token_address(r.admin, r.mint),
        find_program_address(origin), seeds_of(r.admin),
        Sign(admin[r.admin].public_key,
             get_merkle_root(ft_leaf(origin, signed_receiver, r.mint, 1, Meta1),
                             <<Raw(1)>>).val),
        0, <<Raw(1)>>, origin, 1, r.token_seed, <<Meta1>>)

\* a signature issued for one receiver pays no other account
ReceiverBound ==
    \A o \in Origins, signed_receiver \in Owners :
        /\ \A r \in AtomicNativeRequests :
              LET res == SignedReceiverResult(r, signed_receiver, o)
              IN /\ res = "Ok" => r.owner = signed_receiver
                 /\ (/\ r.owner # signed_receiver
                     /\ SignedByStoredKey(r)) => res = "WrongSignature"
        /\ \A r \in ReceiverRequests :
              LET run == SignedReceiverFT(r, signed_receiver, o)
              IN run.res = "Ok" =>
                    /\ r.owner = signed_receiver
                    /\ r.credited = get_associated_token_address(signed_receiver, r.mint)
                    /\ run.withdraws[find_program_address(o)].receiver_address
                           = signed_receiver
                    /\ run.tokens[r.credited] = Balance(tokens, r.credited) + 1

\* C33: in every successful withdrawal the account credited with the value,
\* the receiver hashed into the signed content leaf and the receiver_address
\* stored in the WithdrawRecord are the same account: a proof and signature
\* issued for one receiver never pay another account
C33_ReceiverBound == [](ReceiverBound) /\ [][CreditsReceiver]_vars

\* an FT withdrawal has paid its receiver, whom the record names, and a
\* native request that would pay the other owner with a signature issued
\* for that receiver is refused
C33_Witness ==
    /\ last.op = "WithdrawFT"
    /\ withdraws[last.withdraw].receiver_address = last.owner
    /\ tokens[get_associated_token_address(last.owner, last.mint)] >= 1
    /\ \E o \in Origins, r \in AtomicNativeRequests :
          /\ r.owner # last.owner
          /\ SignedByStoredKey(r) /\ PayableNative(r)
          /\ paid[o] = 0
          /\ SignedReceiverResult(r, last.owner, o) = "WrongSignature"

\* ------------------------------------------------ tokens of a withdrawal
\* the tokens of a mint in all of its associated accounts
TokenSupply(tk, m) ==
    SumOver([t \in AssociatedAddrs |-> Balance(tk, t)],
            {get_associated_token_address(h, m) : h \in Holders})

\* a token withdrawal mints what the bridge's associated account lacks,
\* transfers the amount out of it, and touches no other token account
TokenWithdrawalMoves ==
    (nreq' = nreq + 1 /\ last'.op \in {"WithdrawFT", "WithdrawNFT"}) =>
        LET bridge == get_associated_token_address(last'.admin, last'.mint)
            receiver == get_associated_token_address(last'.owner, last'.mint)
            amount == last'.amount
            bridge_amount == Balance(tokens, bridge)
            minted == TokenSupply(tokens', last'.mint) - TokenSupply(tokens, last'.mint)
        IN /\ last'.op = "WithdrawNFT" => amount = 1
           /\ minted = (IF bridge_amount < amount THEN amount - bridge_amount ELSE 0)
           /\ minted >= 0
           /\ last'.op = "WithdrawNFT" => (minted = 1 <=> bridge_amount = 0)
           /\ bridge_amount + minted >= amount
           /\ tokens'[receiver] = Balance(tokens, receiver) + amount
           /\ tokens'[bridge] = (IF bridge_amount > amount THEN bridge_amount - amount ELSE 0)
           /\ \A t \in AssociatedAddrs \ {bridge, receiver} :
                 Balance(tokens', t) = Balance(tokens, t)

\* no token account is overdrawn
TokensNotOverdrawn == \A t \in AssociatedAddrs : tokens[t] >= 0 - 1

\* C34: WithdrawFT mints to the bridge's associated account exactly
\* max(0, amount - bridge balance) and then transfers the amount to the
\* receiver (WithdrawNFT: mints 1 iff the bridge balance is 0, then transfers
\* 1); the subtraction does not underflow, the transfer does not exceed the
\* bridge balance, and after the withdrawal the receiver's token balance has
\* grown by exactly the amount and the bridge's is max(bridge balance -
\* amount, 0)
C34_MintsTheShortfall == [](TokensNotOverdrawn) /\ [][TokenWithdrawalMoves]_vars

\* an FT withdrawal was paid out of tokens the bridge held, which keeps the
\* rest, and the supply of the mint exceeds what that withdrawal paid: the
\* tokens had been minted by an earlier withdrawal
C34_Witness ==
    /\ last.op = "WithdrawFT"
    /\ tokens[get_associated_token_address(last.admin, last.mint)] > 0
    /\ tokens[get_associated_token_address(last.owner, last.mint)] >= last.amount
    /\ TokenSupply(tokens, last.mint) > last.amount

\* --------------------------------------- withdrawals under two AdminRecords
\* C35: a withdrawal for an origin that carries a non-empty proof and a
\* signature by the current key of its AdminRecord and finds sufficient
\* balance fails only because of an earlier withdrawal authorized under the
\* same AdminRecord: after the only withdrawal of an origin has been
\* authorized under one AdminRecord, such a request for that origin under
\* another AdminRecord (other seeds, other key) still succeeds
C35_OtherAdminDoesNotBlock ==
    (last.op \in WithdrawOps /\ paid[last.origin] = 1) =>
        \A r \in NativeRequests :
            (/\ r.admin # last.admin
             /\ admin[r.admin].public_key # admin[last.admin].public_key
             /\ r.withdraw = find_program_address(last.origin)
             /\ SignedByStoredKey(r)
             /\ PayableNative(r)) => NativeResult(r, last.origin) = "Ok"

\* ------------------------------------------------- replay of a rotation
\* the first rotation of a BridgeAdmin has been undone by the second: three
\* requests have been accepted, the last one is a rotation from a key to
\* another key that the BridgeAdmin had stored and retired before.  Then the
\* three requests were the initialization with the key stored now, the
\* rotation from it to last.old_public_key, signed by it, and the rotation
\* back
FirstRotationUndone ==
    /\ nreq = 3
    /\ last.op = "TransferOwnership"
    /\ last.new_public_key # last.old_public_key
    /\ last.new_public_key \in retired[last.admin]

\* the first rotation, submitted again as it was
FirstRotationAgain ==
    process_transfer_ownership_run(last.admin, seeds_of(last.admin), last.old_public_key,
        Sign(last.new_public_key, keccak(key_bytes(last.old_public_key))), 0)

\* C36: a RotateKey request (new key, signature, recovery id) succeeds at
\* most once: once it has been accepted, the same request submitted again
\* does not change the stored key, also after a later rotation has brought
\* the stored key back to the key that signed it
C36_RotationAcceptedOnce ==
    FirstRotationUndone =>
        /\ FirstRotationAgain.res # "Ok"
        /\ FirstRotationAgain.bridge_admin.public_key = admin[last.admin].public_key

\* ------------------------------------------------- payloads of the variants
\* the NFT withdrawal of a mint (minted from its seed, no collection) to a
\* receiver, carrying the stored key's signature over the root of the leaf
\* of the FT transfer of amount 1 of that mint with the same strings
NFTBySignedFT(a, origin, owner, m) ==
    process_withdraw_nft_run(a, m, find_metadata_pda(m), owner,
        get_associated_token_address(owner, m), get_associated_token_address(a, m),
        find_program_address(origin), find_metadata_pda(m), seeds_of(a),
        Sign(admin[a].public_key,
             get_merkle_root(ft_leaf(origin, owner, m, 1, Meta1), <<Raw(1)>>).val),
        0, <<Raw(1)>>, origin, <<token_seed_of(m)>>, <<Meta1>>).res

\* C37: payloads of different variants never encode to the same bytes: for
\* all mints, amounts and strings get_operation of a native, an FT and an NFT
\* transfer are pairwise different, so that a signature over the leaf of an
\* FT transfer of amount 1 of a mint does not authorize the NFT withdrawal of
\* that mint with the same name, symbol and uri
C37_VariantsDisjoint ==
    /\ \A t, u \in LogicalTransfers :
          t.kind # u.kind =>
              get_operation(transfer_operation(t)) # get_operation(transfer_operation(u))
    /\ \A a \in AdminAddrs, o \in Origins, owner \in Owners, m \in Mints :
          NFTBySignedFT(a, o, owner, m) # "Ok"

\* ------------------------------------------------- who may mint
\* the requests that mint under the authority of the BridgeAdmin
MintingOps == {"WithdrawFT", "WithdrawNFT"}

\* the request carries a signature that the stored key made
SignedByAuthority(request) ==
    /\ "signer" \in DOMAIN request
    /\ request.signer = admin[request.admin].public_key

\* a mint that is created or whose supply grows is the mint of a token
\* withdrawal that the stored key has signed
MintingSigned ==
    \A m \in Mints :
        (\/ mints'[m].exists /\ ~mints[m].exists
         \/ TokenSupply(tokens', m) > TokenSupply(tokens, m)) =>
            /\ last'.op \in MintingOps
            /\ last'.mint = m
            /\ last'.signer = admin'[last'.admin].public_key

\* a MintCollection request carries no signature, and none creates the
\* mint, mints the token or creates the metadata
CollectionCreatesNothing ==
    \A r \in CollectionRequests :
        LET run == CollectionRun(r)
        IN /\ ~SignedByAuthority(r)
           /\ run.res # "Ok"
           /\ run.mints = mints /\ run.metadatas = metadatas /\ run.tokens = tokens

C39_LegacyWrongDataLen ==
    /\ \A a \in AdminAddrs, rent \in BOOLEAN :
          LET res == legacy_process_init_admin_result(a, rent)
          IN /\ res = "WrongDataLen" => admin[a].data_len # BRIDGE_ADMIN_SIZE
             /\ (/\ admin[a].data_len > BRIDGE_ADMIN_SIZE
                 /\ ~admin[a].is_initialized) => res = "WrongDataLen"
    /\ (last.op = "InitializeAdmin" /\ last.res = "WrongDataLen") =>
          last.prior.data_len # BRIDGE_ADMIN_SIZE

====
